---- MODULE Spec2Model ----
(***************************************************************************)
(* glib-serde: the serde <-> GVariant codec.                               *)
(*                                                                         *)
(* A type signature is the sequence of the characters of a GVariant type   *)
(* string ("a{sv}" is <<"a","{","s","v","}">>), a VariantTypeNode is a     *)
(* record [ty, child_tys], a wire value (glib::Variant) is a record        *)
(* [sig, n, s, kids] (its type, its number, its string, its children), and *)
(* the result of a call is one of Ok(x), Err(e) and Panic(e).              *)
(***************************************************************************)
EXTENDS Integers, Sequences, FiniteSets, TLC

VARIABLES call, enc, dec, pc, TYP, threads, built, observed, access

codec_vars == <<call, enc, dec, pc>>
lazy_vars == <<TYP, threads, built, observed>>
access_vars == <<access>>
vars == <<call, enc, dec, pc, TYP, threads, built, observed, access>>

(***************************************************************************)
(* Bounds of the model.                                                    *)
(***************************************************************************)
\* longest Vec / map value that is encoded
MaxLen == 2
\* longest string handed to serialize_str on its own
MaxStrLen == 3
\* largest tag number handed to the decoder on its own
MaxTag == 5
\* the most children of a wire tuple
MaxChildren == 3
\* the bits of a flags value
MaxFlagBits == 3
\* the longest string decoded as flags
MaxFlagsLen == 4

(***************************************************************************)
(* Results.                                                                *)
(***************************************************************************)
Ok(x) == [ok |-> TRUE, v |-> x]
Err(e) == [ok |-> FALSE, err |-> e]
Panic(e) == [ok |-> FALSE, err |-> "panic", why |-> e]
None == [ok |-> FALSE, err |-> "not called"]

IsOk(r) == r.ok
IsPanic(r) == (~r.ok) /\ r.err = "panic"
IsErr(r) == (~r.ok) /\ r.err \notin {"panic", "not called"}

(***************************************************************************)
(* Signature algebra of glib::VariantTy, on the characters of the type     *)
(* string.                                                                 *)
(***************************************************************************)
BasicChars == {"b", "y", "n", "q", "i", "u", "x", "t", "h", "d", "s", "o", "g", "v", "*", "?", "r"}

RECURSIVE TypeEnd(_, _)
RECURSIVE TupleEnd(_, _)
\* The index just past the one complete type that starts at s[i]; 0 when
\* there is none (g_variant_type_string_scan).
TypeEnd(s, i) ==
    IF i > Len(s) THEN 0
    ELSE IF s[i] \in {"a", "m"} THEN TypeEnd(s, i + 1)
    ELSE IF s[i] = "(" THEN TupleEnd(s, i + 1)
    ELSE IF s[i] = "{"
         THEN IF i + 1 > Len(s) \/ s[i + 1] \notin BasicChars THEN 0
              ELSE LET e == TypeEnd(s, i + 2)
                   IN  IF e = 0 \/ e > Len(s) \/ s[e] # "}" THEN 0 ELSE e + 1
    ELSE IF s[i] \in BasicChars THEN i + 1
    ELSE 0

TupleEnd(s, i) ==
    IF i > Len(s) THEN 0
    ELSE IF s[i] = ")" THEN i + 1
    ELSE LET e == TypeEnd(s, i)
         IN  IF e = 0 THEN 0 ELSE TupleEnd(s, e)

\* s is one complete type string
IsTypeString(s) == Len(s) > 0 /\ TypeEnd(s, 1) = Len(s) + 1

is_array(ty) == Len(ty) > 0 /\ ty[1] = "a"
is_maybe(ty) == Len(ty) > 0 /\ ty[1] = "m"
is_tuple(ty) == Len(ty) > 0 /\ ty[1] \in {"(", "r"}
is_dict_entry(ty) == Len(ty) > 0 /\ ty[1] = "{"
is_container(ty) == Len(ty) > 0 /\ ty[1] \in {"a", "m", "(", "r", "{", "v"}

\* VariantTy::element of an array or maybe type
element(ty) == SubSeq(ty, 2, Len(ty))

\* The component of a tuple or dict-entry type that starts at index i of
\* the type string: <<>> stands for "no item" (the closing bracket).
ItemAt(ty, i) ==
    IF i > Len(ty) \/ ty[i] \in {")", "}"} THEN <<>>
    ELSE SubSeq(ty, i, TypeEnd(ty, i) - 1)

\* VariantTy::first: the first component, <<>> for "()"
first(ty) == ItemAt(ty, 2)

\* VariantTy::key, VariantTy::value of a dict-entry type
key(ty) == ItemAt(ty, 2)
value(ty) == ItemAt(ty, TypeEnd(ty, 2))

RECURSIVE NthItemFrom(_, _, _)
\* first() followed by n times next(): the walk of child_type_or_default
NthItemFrom(ty, i, n) ==
    IF ItemAt(ty, i) = <<>> THEN <<>>
    ELSE IF n = 0 THEN ItemAt(ty, i)
    ELSE NthItemFrom(ty, TypeEnd(ty, i), n - 1)

\* Variant::is_of_type (g_variant_type_is_subtype_of) for the definite types
\* and the indefinite "*", "m*" (MAYBE), "r" (TUPLE), "a{?*}" (DICTIONARY)
RECURSIVE IsSubtypeAt(_, _, _, _)
IsSubtypeAt(ty, i, sup, j) ==
    IF j > Len(sup) THEN i > Len(ty)
    ELSE IF i > Len(ty) THEN FALSE
    ELSE IF sup[j] = ty[i] THEN IsSubtypeAt(ty, i + 1, sup, j + 1)
    ELSE IF ty[i] = ")" THEN FALSE
    ELSE LET e == TypeEnd(ty, i)
         IN  IF e = 0 THEN FALSE
             ELSE IF sup[j] = "*" THEN IsSubtypeAt(ty, e, sup, j + 1)
             ELSE IF sup[j] = "r" /\ ty[i] = "(" THEN IsSubtypeAt(ty, e, sup, j + 1)
             ELSE IF sup[j] = "?" /\ e = i + 1 /\ ty[i] \in (BasicChars \ {"v", "*", "?", "r"})
                  THEN IsSubtypeAt(ty, e, sup, j + 1)
             ELSE FALSE

is_subtype_of(ty, sup) == IsSubtypeAt(ty, 1, sup, 1)

VARIANT_TY_UNIT == <<"(", ")">>
VARIANT_TY_ANY == <<"*">>
VARIANT_TY_MAYBE == <<"m", "*">>
VARIANT_TY_TUPLE == <<"r">>
VARIANT_TY_VARIANT == <<"v">>
VARIANT_TY_DICTIONARY == <<"a", "{", "?", "*", "}">>

(***************************************************************************)
(* The data types handed to to_variant / from_variant.                     *)
(*   [k |-> "bool"] ...                 the primitives                     *)
(*   [k |-> "option" | "vec" | "map" | "tuple", of |-> <<types>>]          *)
(*   [k |-> "struct", name, shape, of]   shape: "unit", "tuple", "named"   *)
(*   [k |-> "enum", name, mode, repr, variants]                            *)
(*        mode: "name", "index" (glib_serde_variant_index),                *)
(*              "repr" (glib_serde_repr, with the #[repr] type in repr)    *)
(*        variants: <<[name, shape, of, disc]>>, in declaration order      *)
(*   [k |-> "object_path"], [k |-> "signature"]                            *)
(***************************************************************************)
Prim(n) == [k |-> n]
Option(t) == [k |-> "option", of |-> <<t>>]
Vec(t) == [k |-> "vec", of |-> <<t>>]
Map(kt, vt) == [k |-> "map", of |-> <<kt, vt>>]
Tuple(ts) == [k |-> "tuple", of |-> ts]
Struct(n, sh, ts) == [k |-> "struct", name |-> n, shape |-> sh, of |-> ts]
Enum(n, m, r, vs) == [k |-> "enum", name |-> n, mode |-> m, repr |-> r, variants |-> vs]
Variant(n, sh, ts, d) == [name |-> n, shape |-> sh, of |-> ts, disc |-> d]

PrimNames == {"bool", "u8", "i16", "u16", "i32", "u32", "i64", "u64", "f64", "string", "unit"}
IntNames == {"u8", "i16", "u16", "i32", "u32", "i64", "u64"}

\* glib's StaticVariantType for the primitives
PrimSig(n) ==
    CASE n = "bool" -> <<"b">>
      [] n = "u8" -> <<"y">>
      [] n = "i16" -> <<"n">>
      [] n = "u16" -> <<"q">>
      [] n = "i32" -> <<"i">>
      [] n = "u32" -> <<"u">>
      [] n = "i64" -> <<"x">>
      [] n = "u64" -> <<"t">>
      [] n = "f64" -> <<"d">>
      [] n = "string" -> <<"s">>
      [] n = "unit" -> VARIANT_TY_UNIT
      [] n = "object_path" -> <<"o">>
      [] n = "signature" -> <<"g">>

RECURSIVE Concat(_)
\* the concatenation of a sequence of sequences (GStringBuilder::append)
Concat(ss) == IF ss = <<>> THEN <<>> ELSE Head(ss) \o Concat(Tail(ss))

\* tag_for_repr with i8 taken for a byte
tag_for_repr_byte(ident) ==
    CASE ident \in {"i8", "u8"} -> <<"y">>
      [] ident = "i16" -> <<"n">>
      [] ident = "i32" -> <<"i">>
      [] ident = "i64" -> <<"x">>
      [] ident = "u16" -> <<"q">>
      [] ident = "u32" -> <<"u">>
      [] ident = "u64" -> <<"t">>

\* the wire type code of the tag for a #[repr] integer type
tag_for_repr(ident) ==
    CASE ident \in {"i8", "i16"} -> <<"n">>
      [] ident = "i32" -> <<"i">>
      [] ident = "i64" -> <<"x">>
      [] ident = "u8" -> <<"y">>
      [] ident = "u16" -> <<"q">>
      [] ident = "u32" -> <<"u">>
      [] ident = "u64" -> <<"t">>

\* the tag type of an enum: glib_serde_repr (the #[repr] type, i64 when there
\* is none), else glib_serde_variant_index (UINT32), else STRING
EnumTag(t) ==
    IF t.mode = "repr" THEN tag_for_repr(IF t.repr = "" THEN "i64" ELSE t.repr)
    ELSE IF t.mode = "index" THEN <<"u">>
    ELSE <<"s">>

has_data(t) == \E i \in 1..Len(t.variants) : t.variants[i].shape # "unit"

RECURSIVE static_variant_type(_)
\* StaticVariantType::static_variant_type: glib's impls for the std types,
\* the derive macro's impl for structs and enums
static_variant_type(t) ==
    CASE t.k \in PrimNames \cup {"object_path", "signature"} -> PrimSig(t.k)
      [] t.k = "option" -> <<"m">> \o static_variant_type(t.of[1])
      [] t.k = "vec" -> <<"a">> \o static_variant_type(t.of[1])
      [] t.k = "map" -> <<"a", "{">> \o static_variant_type(t.of[1])
                            \o static_variant_type(t.of[2]) \o <<"}">>
      [] t.k = "tuple" ->
            <<"(">> \o Concat([i \in 1..Len(t.of) |-> static_variant_type(t.of[i])]) \o <<")">>
      [] t.k = "struct" ->
            IF t.shape = "unit" THEN VARIANT_TY_UNIT
            ELSE IF Len(t.of) = 1 THEN static_variant_type(t.of[1])
            ELSE <<"(">> \o Concat([i \in 1..Len(t.of) |-> static_variant_type(t.of[i])])
                     \o <<")">>
      [] t.k = "enum" ->
            IF has_data(t) THEN <<"(">> \o EnumTag(t) \o <<"v", ")">> ELSE EnumTag(t)

\* VariantTypeNode::new
VariantTypeNode(ty, child_tys) == [ty |-> ty, child_tys |-> child_tys]

RECURSIVE variant_type(_)
\* impl_for_fields: the node type and the children of a field list, where
\* self_ty is the static type of the type the impl is generated for
impl_for_fields(self_ty, shape, of) ==
    IF shape = "unit" THEN VariantTypeNode(VARIANT_TY_UNIT, <<>>)
    ELSE VariantTypeNode(
            IF Len(of) = 1 THEN variant_type(of[1]).ty ELSE self_ty,
            [i \in 1..Len(of) |-> variant_type(of[i])])

\* VariantType::variant_type
variant_type(t) ==
    CASE t.k \in PrimNames \cup {"object_path", "signature"} ->
            VariantTypeNode(static_variant_type(t), <<>>)
      [] t.k \in {"option", "vec"} ->
            LET child_node == variant_type(t.of[1])
            IN  VariantTypeNode(<<IF t.k = "option" THEN "m" ELSE "a">> \o child_node.ty,
                                <<child_node>>)
      [] t.k = "map" ->
            LET key_node == variant_type(t.of[1])
                value_node == variant_type(t.of[2])
                entry == VariantTypeNode(<<"{">> \o key_node.ty \o value_node.ty \o <<"}">>,
                                         <<key_node, value_node>>)
            IN  VariantTypeNode(<<"a">> \o entry.ty, entry.child_tys)
      [] t.k = "tuple" ->
            VariantTypeNode(static_variant_type(t),
                            [i \in 1..Len(t.of) |-> variant_type(t.of[i])])
      [] t.k = "struct" -> impl_for_fields(static_variant_type(t), t.shape, t.of)
      [] t.k = "enum" ->
            IF has_data(t)
            THEN VariantTypeNode(static_variant_type(t),
                    [i \in 1..Len(t.variants) |->
                        impl_for_fields(static_variant_type(t),
                                        t.variants[i].shape, t.variants[i].of)])
            ELSE VariantTypeNode(EnumTag(t), <<>>)

(***************************************************************************)
(* Wire values (glib::Variant): [sig, n, s, kids].  n holds the value of a *)
(* boolean (0 / 1), an integer or a double (in halves), s the characters   *)
(* of a string, object path or signature, kids the children of a           *)
(* container (the content of a maybe or of a box is its one child).        *)
(***************************************************************************)
Wire(sig, n, s, kids) == [sig |-> sig, n |-> n, s |-> s, kids |-> kids]

\* ToVariant for the fixed-size types, strings and ()
num_to_variant(code, n) == Wire(<<code>>, n, <<>>, <<>>)
str_to_variant(code, s) == Wire(<<code>>, 0, s, <<>>)
unit_to_variant == Wire(VARIANT_TY_UNIT, 0, <<>>, <<>>)

\* Variant::tuple_from_iter, and ToVariant for a Rust tuple
tuple_from_iter(children) ==
    Wire(<<"(">> \o Concat([i \in 1..Len(children) |-> children[i].sig]) \o <<")">>,
         0, <<>>, children)

\* ToVariant for glib::Variant: the value in a box
from_variant_box(inner) == Wire(VARIANT_TY_VARIANT, 0, <<>>, <<inner>>)

IsDefinite(ty) == \A i \in 1..Len(ty) : ty[i] \notin {"*", "?", "r"}

\* GlibVariantExt::from_none, from_some, from_dict_entry
from_none(ty) == Wire(<<"m">> \o ty, 0, <<>>, <<>>)
from_some(w) == Wire(<<"m">> \o w.sig, 0, <<>>, <<w>>)
from_dict_entry(k, w) == Wire(<<"{">> \o k.sig \o w.sig \o <<"}">>, 0, <<>>, <<k, w>>)

\* GlibVariantExt::is_of_type
is_of_type(w, ty) == is_subtype_of(w.sig, ty)

\* GlibVariantExt::array_from_variant_iter: the two assertions panic
array_from_variant_iter(ty, children) ==
    IF ~is_array(ty) THEN Panic("assert ty.is_array()")
    ELSE IF \E i \in 1..Len(children) : ~is_of_type(children[i], element(ty))
         THEN Panic("Type mismatch")
    ELSE IF IsDefinite(ty) THEN Ok(Wire(ty, 0, <<>>, children))
    ELSE IF children = <<>> THEN Panic("g_variant_builder_end")
    ELSE Ok(Wire(<<"a">> \o children[1].sig, 0, <<>>, children))

\* Variant::array_from_fixed_array
array_from_fixed_array(code, values) ==
    Wire(<<"a", code>>, 0, <<>>, [i \in 1..Len(values) |-> num_to_variant(code, values[i])])

(***************************************************************************)
(* Strings: g_variant_is_object_path and g_variant_is_signature.           *)
(***************************************************************************)
AlnumChars == {"a", "b", "s", "i", "A", "B", "0", "1", "_"}
SignatureChars == {"y", "b", "n", "q", "i", "u", "x", "t", "h", "d", "v", "a", "s", "o", "g",
                   "(", ")", "{", "}"}

is_object_path(s) ==
    /\ Len(s) > 0
    /\ s[1] = "/"
    /\ \A i \in 2..Len(s) : \/ s[i] \in AlnumChars
                            \/ s[i] = "/" /\ s[i - 1] # "/"
    /\ ~(Len(s) > 1 /\ s[Len(s)] = "/")

RECURSIVE TypesFrom(_, _)
\* zero or more complete types fill s from index i on
TypesFrom(s, i) ==
    IF i > Len(s) THEN TRUE
    ELSE LET e == TypeEnd(s, i) IN IF e = 0 THEN FALSE ELSE TypesFrom(s, e)

is_signature(s) ==
    /\ \A i \in 1..Len(s) : s[i] \in SignatureChars
    /\ TypesFrom(s, 1)

(***************************************************************************)
(* The Serializer.  The node index of child_type_or_default and the        *)
(* variant_index of the enum methods count from 0, as in the source.       *)
(***************************************************************************)
child_type_or_default(node, index) ==
    IF index < Len(node.child_tys) THEN node.child_tys[index + 1]
    ELSE LET ty == node.ty
             derived ==
                IF is_array(ty) \/ is_maybe(ty)
                THEN LET elem == element(ty)
                     IN  IF is_dict_entry(elem)
                         THEN IF index = 0 THEN key(elem)
                              ELSE IF index = 1 THEN value(elem)
                              ELSE <<>>
                         ELSE IF index = 0 THEN elem ELSE <<>>
                ELSE IF is_tuple(ty) THEN NthItemFrom(ty, 2, index)
                ELSE <<>>
         IN  IF derived # <<>> THEN VariantTypeNode(derived, <<>>)
             ELSE VariantTypeNode(VARIANT_TY_ANY, <<>>)

\* a conversion that never fails
FitsTag_any(code, variant_index) == TRUE

\* u32::try_into the integer type of a tag; variant_index is a u32: one with the top bit set is held as the negative
\* number of the same 32 bits
FitsTag(code, variant_index) ==
    CASE code = "n" -> 0 <= variant_index /\ variant_index <= 32767
      [] code = "i" -> 0 <= variant_index /\ variant_index <= 2147483647
      [] code = "y" -> 0 <= variant_index /\ variant_index <= 255
      [] code = "q" -> 0 <= variant_index /\ variant_index <= 65535
      [] OTHER -> TRUE

\* variant_tag with the variants counted from 1
variant_tag_from_one(node, variant_index, variant) ==
    LET ty == node.ty
        tag_ty == IF is_tuple(ty) THEN first(ty) ELSE ty
        value_ty == IF is_tuple(ty) THEN <<child_type_or_default(node, variant_index)>>
                    ELSE <<>>
    IN  IF tag_ty = <<"s">>
        THEN Ok([tag |-> str_to_variant("s", variant), value_ty |-> value_ty])
        ELSE Ok([tag |-> num_to_variant(tag_ty[1], variant_index + 1),
                 value_ty |-> value_ty])

\* Serializer::variant_tag: Ok([tag, value_ty]), value_ty being <<node>> for
\* Some(node) and <<>> for None
variant_tag(node, variant_index, variant) ==
    LET ty == node.ty
        tag_ty == IF is_tuple(ty) THEN first(ty) ELSE ty
        value_ty == IF is_tuple(ty) THEN <<child_type_or_default(node, variant_index)>>
                    ELSE <<>>
    IN  IF tag_ty = <<>> THEN Err("UnsupportedType")
        ELSE IF tag_ty = <<"s">>
             THEN Ok([tag |-> str_to_variant("s", variant), value_ty |-> value_ty])
        ELSE IF Len(tag_ty) = 1 /\ tag_ty[1] \in {"n", "i", "x", "y", "q", "u", "t"}
             THEN IF FitsTag(tag_ty[1], variant_index)
                  THEN Ok([tag |-> num_to_variant(tag_ty[1], variant_index),
                           value_ty |-> value_ty])
                  ELSE Err("Int")
        ELSE Err("InvalidTag")

\* serialize_str with no validation of the string
serialize_str_unchecked(node, v) ==
    LET ty == node.ty
    IN  IF ty \in {<<"o">>, <<"g">>, <<"s">>} THEN Ok(str_to_variant(ty[1], v))
        ELSE IF ty = <<"*">> THEN Ok(str_to_variant("s", v))
        ELSE Err("StrMismatch")

\* Serializer::serialize_str
serialize_str(node, v) ==
    LET ty == node.ty
    IN  IF ty = <<"o">>
        THEN IF is_object_path(v) THEN Ok(str_to_variant("o", v)) ELSE Err("Bool")
        ELSE IF ty = <<"g">>
             THEN IF is_signature(v) THEN Ok(str_to_variant("g", v)) ELSE Err("Bool")
        ELSE IF ty \in {<<"s">>, <<"*">>} THEN Ok(str_to_variant("s", v))
        ELSE Err("StrMismatch")

\* Serializer::serialize_none
serialize_none(node) ==
    LET ty == child_type_or_default(node, 0)
    IN  IF IsDefinite(ty.ty) THEN Ok(from_none(ty.ty)) ELSE Panic("g_variant_new_maybe")

\* serialize_unit_variant with the bare tag for every enum
serialize_unit_variant_bare(node, variant_index, variant) ==
    LET r == variant_tag(node, variant_index, variant)
    IN  IF ~r.ok THEN r ELSE Ok(r.v.tag)

\* Serializer::serialize_unit_variant
serialize_unit_variant(node, variant_index, variant) ==
    LET r == variant_tag(node, variant_index, variant)
    IN  IF ~r.ok THEN r
        ELSE IF r.v.value_ty # <<>>
             THEN Ok(tuple_from_iter(<<r.v.tag, from_variant_box(unit_to_variant)>>))
        ELSE Ok(r.v.tag)

(***************************************************************************)
(* U64Serializer: the element of a packed array as a 64-bit word, written  *)
(* as its four 16-bit limbs, most significant first.                       *)
(***************************************************************************)
Limb == 256 * 256

\* "v as u64" of an integer v (sign extension), for -2^31 <= v < 2^31
AsU64(v) ==
    <<IF v < 0 THEN Limb - 1 ELSE 0, IF v < 0 THEN Limb - 1 ELSE 0,
      (v \div Limb) % Limb, v % Limb>>

\* the low 32 bits of a word as a signed number
Low32Signed(w) ==
    IF w[3] >= Limb \div 2 THEN (w[3] - Limb) * Limb + w[4] ELSE w[3] * Limb + w[4]

\* a cast that zero-extends the 16-bit element where "w as i16" keeps the sign
FromU64_zero_extended(code, w) ==
    CASE code = "y" -> w[4] % 256
      [] code \in {"q", "n"} -> w[4]
      [] code \in {"i", "x", "d"} -> Low32Signed(w)
      [] code \in {"u", "t"} -> w[3] * Limb + w[4]
      [] code = "b" -> IF w = <<0, 0, 0, 0>> THEN 0 ELSE 1

\* "w as T" for the element type of the packed array
FromU64(code, w) ==
    CASE code = "y" -> w[4] % 256
      [] code = "q" -> w[4]
      [] code = "n" -> IF w[4] >= Limb \div 2 THEN w[4] - Limb ELSE w[4]
      [] code \in {"i", "x"} -> Low32Signed(w)
      [] code \in {"u", "t"} -> w[3] * Limb + w[4]
      [] code = "b" -> IF w = <<0, 0, 0, 0>> THEN 0 ELSE 1
      [] code = "d" -> Low32Signed(w)

\* value.serialize(U64Serializer): the word of a fixed-size value, an error
\* for every other type
U64Serializer(t, v) ==
    IF t.k = "bool" THEN Ok(AsU64(IF v THEN 1 ELSE 0))
    ELSE IF t.k \in IntNames \cup {"f64"} THEN Ok(AsU64(v))
    ELSE Err("Custom")

FixedCodes == {"y", "q", "u", "t", "n", "i", "x", "d", "b"}

RECURSIVE Serialize(_, _, _)
RECURSIVE SerializeAll(_, _, _, _)
RECURSIVE PackAll(_, _, _, _)
RECURSIVE TupleSerializer(_, _, _)
RECURSIVE MapEntries(_, _, _, _)

\* Serializer::serialize_some
serialize_some(node, t, x) ==
    LET ty == child_type_or_default(node, 0)
        r == Serialize(t, x, ty)
    IN  IF ~r.ok THEN r
        ELSE IF ~is_of_type(r.v, ty.ty) THEN Err("Mismatch")
        ELSE Ok(from_some(r.v))

\* Serializer::serialize_newtype_struct
serialize_newtype_struct(node, name, t, x) ==
    IF name = "glib_serde::$ObjectPath" THEN Serialize(t, x, VariantTypeNode(<<"o">>, <<>>))
    ELSE IF name = "glib_serde::$Signature" THEN Serialize(t, x, VariantTypeNode(<<"g">>, <<>>))
    ELSE Serialize(t, x, node)

\* Serializer::serialize_newtype_variant
serialize_newtype_variant(node, variant_index, variant, t, x) ==
    LET r == variant_tag(node, variant_index, variant)
    IN  IF ~r.ok THEN r
        ELSE LET p == Serialize(t, x, node)
             IN  IF ~p.ok THEN p
                 ELSE Ok(tuple_from_iter(<<r.v.tag, from_variant_box(p.v)>>))

\* Serializer::serialize_tuple_variant and serialize_struct_variant, with the
\* fields and the end of the TupleVariantSerializer
serialize_tuple_variant(node, variant_index, variant, ts, xs) ==
    LET r == variant_tag(node, variant_index, variant)
    IN  IF ~r.ok THEN r
        ELSE IF r.v.value_ty = <<>> THEN Err("UnsupportedType")
        ELSE LET p == TupleSerializer(r.v.value_ty[1], ts, xs)
             IN  IF ~p.ok THEN p
                 ELSE Ok(tuple_from_iter(<<r.v.tag, from_variant_box(p.v)>>))

\* Serializer::serialize_seq with the elements and the end of the
\* SeqSerializer: the packed path for the nine fixed-size element codes,
\* the generic path otherwise
serialize_seq(node, t, xs) ==
    LET ty == node.ty
    IN  IF is_array(ty) /\ Len(ty) = 2 /\ ty[2] \in FixedCodes
        THEN LET r == PackAll(ty[2], t, xs, 1)
             IN  IF ~r.ok THEN r ELSE Ok(array_from_fixed_array(ty[2], r.v))
        ELSE LET child_node == child_type_or_default(node, 0)
                 r == SerializeAll([i \in 1..Len(xs) |-> t], xs,
                                   [i \in 1..Len(xs) |-> child_node], 1)
             IN  IF ~r.ok THEN r ELSE array_from_variant_iter(ty, r.v)

\* Serializer::serialize_map with MapSerializer::serialize_entry and end
serialize_map(node, kt, vt, entries) ==
    LET r == MapEntries(node, kt, vt, entries)
    IN  IF ~r.ok THEN r ELSE array_from_variant_iter(node.ty, r.v)

\* the elements of a packed array, each through the U64Serializer
PackAll(code, t, xs, i) ==
    IF i > Len(xs) THEN Ok(<<>>)
    ELSE LET r == U64Serializer(t, xs[i])
         IN  IF ~r.ok THEN r
             ELSE LET rest == PackAll(code, t, xs, i + 1)
                  IN  IF ~rest.ok THEN rest ELSE Ok(<<FromU64(code, r.v)>> \o rest.v)

\* the values xs[i..] of the types ts, each against its node, up to the first
\* failure
SerializeAll(ts, xs, nodes, i) ==
    IF i > Len(xs) THEN Ok(<<>>)
    ELSE LET r == Serialize(ts[i], xs[i], nodes[i])
         IN  IF ~r.ok THEN r
             ELSE LET rest == SerializeAll(ts, xs, nodes, i + 1)
                  IN  IF ~rest.ok THEN rest ELSE Ok(<<r.v>> \o rest.v)

\* TupleSerializer: serialize_element for every field, then end
TupleSerializer(node, ts, xs) ==
    LET r == SerializeAll(ts, xs,
                          [i \in 1..Len(xs) |-> child_type_or_default(node, i - 1)], 1)
    IN  IF ~r.ok THEN r ELSE Ok(tuple_from_iter(r.v))

MapEntries(node, kt, vt, entries) ==
    IF entries = <<>> THEN Ok(<<>>)
    ELSE LET key_node == child_type_or_default(node, 0)
             value_node == child_type_or_default(node, 1)
             k == Serialize(kt, Head(entries)[1], key_node)
         IN  IF ~k.ok THEN k
             ELSE LET w == Serialize(vt, Head(entries)[2], value_node)
                  IN  IF ~w.ok THEN w
                      ELSE LET rest == MapEntries(node, kt, vt, Tail(entries))
                           IN  IF ~rest.ok THEN rest
                               ELSE Ok(<<from_dict_entry(k.v, w.v)>> \o rest.v)

\* value.serialize(Serializer::new(node)) for a value x of the type t: the
\* Serialize impls of serde for the std types and of its derive macro
Serialize(t, x, node) ==
    CASE t.k = "bool" -> Ok(num_to_variant("b", IF x THEN 1 ELSE 0))
      [] t.k \in IntNames \cup {"f64"} -> Ok(num_to_variant(PrimSig(t.k)[1], x))
      [] t.k = "string" -> serialize_str(node, x)
      [] t.k = "unit" -> Ok(unit_to_variant)
      [] t.k = "object_path" ->
            serialize_newtype_struct(node, "glib_serde::$ObjectPath", Prim("string"), x)
      [] t.k = "signature" ->
            serialize_newtype_struct(node, "glib_serde::$Signature", Prim("string"), x)
      [] t.k = "option" ->
            IF x = <<>> THEN serialize_none(node) ELSE serialize_some(node, t.of[1], x[1])
      [] t.k = "vec" -> serialize_seq(node, t.of[1], x)
      [] t.k = "map" -> serialize_map(node, t.of[1], t.of[2], x)
      [] t.k = "tuple" -> TupleSerializer(node, t.of, x)
      [] t.k = "struct" ->
            IF t.shape = "unit" THEN Ok(unit_to_variant)
            ELSE IF t.shape = "tuple" /\ Len(t.of) = 1
                 THEN serialize_newtype_struct(node, t.name, t.of[1], x[1])
            ELSE TupleSerializer(node, t.of, x)
      [] t.k = "enum" ->
            LET variant == t.variants[x[1] + 1]
            IN  IF variant.shape = "unit"
                THEN serialize_unit_variant(node, x[1], variant.name)
                ELSE IF variant.shape = "tuple" /\ Len(variant.of) = 1
                     THEN serialize_newtype_variant(node, x[1], variant.name,
                                                    variant.of[1], x[2][1])
                ELSE serialize_tuple_variant(node, x[1], variant.name, variant.of, x[2])

\* to_variant
to_variant(t, x) == Serialize(t, x, variant_type(t))

(***************************************************************************)
(* The Deserializer (impl Deserializer for &Variant) with the Deserialize  *)
(* impls of serde for the std types and of its derive macro.  oc tells     *)
(* whether the build checks integer overflow (a debug build does, a        *)
(* release build wraps).                                                   *)
(***************************************************************************)
n_children(w) == Len(w.kids)

\* Variant::str
IsStr(w) == w.sig \in {<<"s">>, <<"o">>, <<"g">>}

\* the range of an integer type, for the integers the model holds
InRange(name, n) ==
    CASE name = "i8" -> -128 <= n /\ n <= 127
      [] name = "u8" -> 0 <= n /\ n <= 255
      [] name = "i16" -> -32768 <= n /\ n <= 32767
      [] name = "u16" -> 0 <= n /\ n <= 65535
      [] name \in {"u32", "u64"} -> 0 <= n
      [] OTHER -> TRUE

\* size_hint of the three SeqAccess impls: len - index - 1 in usize
size_hint(len, index, oc) ==
    IF len - index - 1 >= 0 THEN Ok(len - index - 1)
    ELSE IF oc THEN Panic("attempt to subtract with overflow")
    ELSE Ok(-1)

\* T::deserialize(child.into_deserializer()) for an element of a packed
\* array: serde's primitive deserializers visit the value as its own type
DeserializeFixed(t, code, n) ==
    IF t.k = "bool" THEN IF code = "b" THEN Ok(n # 0) ELSE Err("Custom")
    ELSE IF t.k \in IntNames
         THEN IF code \in FixedCodes \ {"b", "d"} /\ InRange(t.k, n) THEN Ok(n)
              ELSE Err("Custom")
    ELSE IF t.k = "f64"
         THEN IF code = "d" THEN Ok(n)
              ELSE IF code = "b" THEN Err("Custom")
              ELSE Ok(2 * n)
    ELSE Err("Custom")

RECURSIVE InsertEntry(_, _)
\* HashMap::insert, the map being the sequence of its entries by ascending key
InsertEntry(m, e) ==
    IF m = <<>> THEN <<e>>
    ELSE IF Head(m)[1] = e[1] THEN <<e>> \o Tail(m)
    ELSE IF Head(m)[1] > e[1] THEN <<e>> \o m
    ELSE <<Head(m)>> \o InsertEntry(Tail(m), e)

RECURSIVE Deserialize(_, _, _)
RECURSIVE VisitSeq(_, _, _, _)
RECURSIVE VisitFixedSeq(_, _, _, _, _)
RECURSIVE VisitMap(_, _, _, _, _)

\* the field visitor of a derived enum on the tag: Ok(the 0-based index of
\* the variant)
deserialize_identifier(t, tag) ==
    IF tag.sig \in {<<"y">>, <<"q">>, <<"u">>, <<"t">>}
    THEN IF tag.n < Len(t.variants) THEN Ok(tag.n) ELSE Err("Custom")
    ELSE IF tag.sig \in {<<"n">>, <<"i">>, <<"x">>} THEN Err("Custom")
    ELSE IF tag.sig = <<"s">>
         THEN IF \E i \in 1..Len(t.variants) : t.variants[i].name = tag.s
              THEN Ok((CHOOSE i \in 1..Len(t.variants) : t.variants[i].name = tag.s) - 1)
              ELSE Err("Custom")
    ELSE Err("UnsupportedType")

\* an EnumDeserializer::value that hands out a child 1 that is in no box
EnumValue_unboxed(w) ==
    IF is_container(w.sig) /\ n_children(w) > 1
    THEN Ok(IF w.kids[2].sig = VARIANT_TY_VARIANT THEN w.kids[2].kids[1] ELSE w.kids[2])
    ELSE Err("UnsupportedType")

\* EnumDeserializer::value
EnumValue(w) ==
    IF is_container(w.sig) /\ n_children(w) > 1 /\ w.kids[2].sig = VARIANT_TY_VARIANT
    THEN Ok(w.kids[2].kids[1])
    ELSE Err("UnsupportedType")

\* Deserializer::deserialize_seq with the visit_seq of a visitor that takes
\* one element per type of ts (a derived tuple or struct variant)
deserialize_seq_fields(ts, w, oc) ==
    IF is_array(w.sig)
    THEN IF Len(w.sig) = 2 /\ w.sig[2] \in FixedCodes
         THEN VisitFixedSeq(ts, w.sig[2], w.kids, oc, 1)
         ELSE VisitSeq(ts, w.kids, oc, 1)
    ELSE IF is_tuple(w.sig) THEN VisitSeq(ts, w.kids, oc, 1)
    ELSE Err("UnsupportedType")

\* Error::LengthMismatch
LengthMismatch(actual, expected) ==
    [ok |-> FALSE, err |-> "LengthMismatch", actual |-> actual, expected |-> expected]

\* a deserialize_tuple that leaves the count of the children to the visitor
deserialize_tuple_unchecked(ts, w, oc) ==
    IF ~is_of_type(w, VARIANT_TY_TUPLE) THEN Err("Mismatch")
    ELSE VisitSeq(ts, w.kids, oc, 1)

\* Deserializer::deserialize_tuple with the visit_seq of a tuple or struct
deserialize_tuple(ts, w, oc) ==
    IF ~is_of_type(w, VARIANT_TY_TUPLE) THEN Err("Mismatch")
    ELSE IF n_children(w) # Len(ts) THEN LengthMismatch(n_children(w), Len(ts))
    ELSE VisitSeq(ts, w.kids, oc, 1)

\* Deserializer::deserialize_seq with the visit_seq of Vec<T>: size_hint,
\* then next_element to the end
deserialize_seq_vec(t, w, oc) ==
    LET all == [i \in 1..n_children(w) |-> t]
        hint == size_hint(n_children(w), 0, oc)
    IN  IF is_array(w.sig)
        THEN IF ~hint.ok THEN hint
             ELSE IF Len(w.sig) = 2 /\ w.sig[2] \in FixedCodes
                  THEN VisitFixedSeq(all, w.sig[2], w.kids, oc, 1)
                  ELSE VisitSeq(all, w.kids, oc, 1)
        ELSE IF is_tuple(w.sig)
             THEN IF ~hint.ok THEN hint ELSE VisitSeq(all, w.kids, oc, 1)
        ELSE Err("UnsupportedType")

\* Deserializer::deserialize_map with the visit_map of HashMap<K, V>:
\* size_hint, then next_entry to the end
deserialize_map(kt, vt, w, oc) ==
    LET hint == size_hint(n_children(w), 0, oc)
    IN  IF ~is_of_type(w, VARIANT_TY_DICTIONARY) THEN Err("Mismatch")
        ELSE IF ~hint.ok THEN hint
        ELSE VisitMap(kt, vt, w.kids, oc, 1)

\* Deserializer::deserialize_enum with the visit_enum of a derived enum
deserialize_enum(t, w, oc) ==
    LET boxed == is_container(w.sig)
        tag == IF ~boxed THEN Ok(w)
               ELSE IF n_children(w) > 0 THEN Ok(w.kids[1])
               ELSE Err("UnsupportedType")
        idx == IF ~tag.ok THEN tag ELSE deserialize_identifier(t, tag.v)
    IN  IF ~idx.ok THEN idx
        ELSE LET variant == t.variants[idx.v + 1]
                 payload == EnumValue(w)
             IN  IF variant.shape = "unit"
                 THEN IF ~boxed THEN Ok(<<idx.v, <<>>>>)
                      ELSE IF ~payload.ok THEN payload
                      ELSE IF ~is_of_type(payload.v, VARIANT_TY_UNIT) THEN Err("Mismatch")
                      ELSE Ok(<<idx.v, <<>>>>)
                 ELSE IF ~boxed THEN Err("UnsupportedType")
                 ELSE IF ~payload.ok THEN payload
                 ELSE LET r == IF variant.shape = "tuple" /\ Len(variant.of) = 1
                               THEN LET x == Deserialize(variant.of[1], payload.v, oc)
                                    IN  IF ~x.ok THEN x ELSE Ok(<<x.v>>)
                               ELSE deserialize_seq_fields(variant.of, payload.v, oc)
                      IN  IF ~r.ok THEN r ELSE Ok(<<idx.v, r.v>>)

\* next_element of the ContainerDeserializer for each type of ts[i..]; the
\* visitor fails when the children run out
VisitSeq(ts, kids, oc, i) ==
    IF i > Len(ts) THEN Ok(<<>>)
    ELSE IF i > Len(kids) THEN Err("Custom")
    ELSE LET r == Deserialize(ts[i], kids[i], oc)
         IN  IF ~r.ok THEN r
             ELSE LET rest == VisitSeq(ts, kids, oc, i + 1)
                  IN  IF ~rest.ok THEN rest ELSE Ok(<<r.v>> \o rest.v)

\* next_element of the FixedSeqDeserializer for each type of ts[i..]
VisitFixedSeq(ts, code, kids, oc, i) ==
    IF i > Len(ts) THEN Ok(<<>>)
    ELSE IF i > Len(kids) THEN Err("Custom")
    ELSE LET r == DeserializeFixed(ts[i], code, kids[i].n)
         IN  IF ~r.ok THEN r
             ELSE LET rest == VisitFixedSeq(ts, code, kids, oc, i + 1)
                  IN  IF ~rest.ok THEN rest ELSE Ok(<<r.v>> \o rest.v)

\* next_entry_seed of the ContainerDeserializer for the entries kids[i..],
\* each inserted into the map
VisitMap(kt, vt, kids, oc, i) ==
    IF i > Len(kids) THEN Ok(<<>>)
    ELSE LET k == Deserialize(kt, kids[i].kids[1], oc)
         IN  IF ~k.ok THEN k
             ELSE LET x == Deserialize(vt, kids[i].kids[2], oc)
                  IN  IF ~x.ok THEN x
                      ELSE LET rest == VisitMap(kt, vt, kids, oc, i + 1)
                           IN  IF ~rest.ok THEN rest
                               ELSE Ok(InsertEntry(rest.v, <<k.v, x.v>>))

\* T::deserialize(w) for the type t
Deserialize(t, w, oc) ==
    CASE t.k = "bool" -> IF w.sig = <<"b">> THEN Ok(w.n # 0) ELSE Err("Mismatch")
      [] t.k \in IntNames \cup {"f64"} ->
            IF w.sig = PrimSig(t.k) THEN Ok(w.n) ELSE Err("Mismatch")
      [] t.k = "i8" ->
            IF w.sig # <<"n">> THEN Err("Mismatch")
            ELSE IF InRange("i8", w.n) THEN Ok(w.n) ELSE Err("Int")
      [] t.k = "string" -> IF IsStr(w) THEN Ok(w.s) ELSE Err("StrMismatch")
      [] t.k = "unit" -> IF w.sig = VARIANT_TY_UNIT THEN Ok("()") ELSE Err("Mismatch")
      [] t.k = "object_path" ->
            IF ~IsStr(w) THEN Err("StrMismatch")
            ELSE IF is_object_path(w.s) THEN Ok(w.s) ELSE Err("Custom")
      [] t.k = "signature" ->
            IF ~IsStr(w) THEN Err("StrMismatch")
            ELSE IF is_signature(w.s) THEN Ok(w.s) ELSE Err("Custom")
      [] t.k = "option" ->
            IF ~is_of_type(w, VARIANT_TY_MAYBE) THEN Err("Mismatch")
            ELSE IF w.kids = <<>> THEN Ok(<<>>)
            ELSE LET r == Deserialize(t.of[1], w.kids[1], oc)
                 IN  IF ~r.ok THEN r ELSE Ok(<<r.v>>)
      [] t.k = "vec" -> deserialize_seq_vec(t.of[1], w, oc)
      [] t.k = "map" -> deserialize_map(t.of[1], t.of[2], w, oc)
      [] t.k = "tuple" -> deserialize_tuple(t.of, w, oc)
      [] t.k = "struct" ->
            IF t.shape = "unit"
            THEN IF w.sig = VARIANT_TY_UNIT THEN Ok(<<>>) ELSE Err("Mismatch")
            ELSE IF t.shape = "tuple" /\ Len(t.of) = 1
                 THEN LET r == Deserialize(t.of[1], w, oc)
                      IN  IF ~r.ok THEN r ELSE Ok(<<r.v>>)
            ELSE deserialize_tuple(t.of, w, oc)
      [] t.k = "enum" -> deserialize_enum(t, w, oc)

\* from_variant
from_variant(t, w, oc) == Deserialize(t, w, oc)

(***************************************************************************)
(* The declared types the codec is applied to, and their values.  A value  *)
(* of a primitive is itself (an f64 counted in halves, a string as the     *)
(* sequence of its characters), of an Option <<>> or <<x>>, of a Vec the   *)
(* sequence of its elements, of a map the sequence of its <<key, value>>   *)
(* entries by ascending key, of a tuple or struct the sequence of its      *)
(* fields, of an enum <<the 0-based index of the variant, the fields of    *)
(* the variant>>.                                                          *)
(***************************************************************************)
MyNewtypeStruct == Struct("MyNewtypeStruct", "tuple", <<Prim("i32")>>)
MyTupleStruct ==
    Struct("MyTupleStruct", "tuple", <<Prim("u64"), Prim("string"), Option(Prim("string"))>>)
MyUnitStruct == Struct("MyUnitStruct", "unit", <<>>)
MyStruct == Struct("MyStruct", "named", <<Prim("u32"), Prim("f64")>>)
MySingleFieldStruct == Struct("MySingleFieldStruct", "named", <<Prim("i32")>>)
WString == Struct("WString", "tuple", <<Prim("string")>>)
WOption == Struct("WOption", "tuple", <<Option(Prim("string"))>>)
WVec == Struct("WVec", "tuple", <<Vec(Prim("string"))>>)
WInts == Struct("WInts", "tuple", <<Vec(Prim("i32"))>>)

\* enum MyEnum { U, N(u16), T(u8, String), S { data: Vec<i16>, keys: HashMap<i64, String> } }
MyEnum ==
    Enum("MyEnum", "name", "",
         << Variant(<<"U">>, "unit", <<>>, 0),
            Variant(<<"N">>, "tuple", <<Prim("u16")>>, 1),
            Variant(<<"T">>, "tuple", <<Prim("u8"), Prim("string")>>, 2),
            Variant(<<"S">>, "named", <<Vec(Prim("i16")), Map(Prim("i64"), Prim("string"))>>, 3) >>)

\* enum Color { R, G, B }
Color ==
    Enum("Color", "name", "",
         << Variant(<<"R">>, "unit", <<>>, 0), Variant(<<"G">>, "unit", <<>>, 1),
            Variant(<<"B">>, "unit", <<>>, 2) >>)

\* #[glib_serde_variant_index] enum Direction { North = 1, East = 2, South = 3, West = 4 }
Direction ==
    Enum("Direction", "index", "",
         << Variant(<<"N">>, "unit", <<>>, 1), Variant(<<"E">>, "unit", <<>>, 2),
            Variant(<<"S">>, "unit", <<>>, 3), Variant(<<"W">>, "unit", <<>>, 4) >>)

\* #[glib_serde_variant_index] enum Item { A, B(i32), C(i32, i32), D { a: i32, b: i32, c: i32 } }
Item ==
    Enum("Item", "index", "",
         << Variant(<<"A">>, "unit", <<>>, 0),
            Variant(<<"B">>, "tuple", <<Prim("i32")>>, 1),
            Variant(<<"C">>, "tuple", <<Prim("i32"), Prim("i32")>>, 2),
            Variant(<<"D">>, "named", <<Prim("i32"), Prim("i32"), Prim("i32")>>, 3) >>)

\* enum Msg { Q, Text(String), Opt(Option<i32>), Ids(Vec<i32>), One { a: u8 } }
Msg ==
    Enum("Msg", "name", "",
         << Variant(<<"Q">>, "unit", <<>>, 0),
            Variant(<<"T">>, "tuple", <<Prim("string")>>, 1),
            Variant(<<"O">>, "tuple", <<Option(Prim("i32"))>>, 2),
            Variant(<<"I">>, "tuple", <<Vec(Prim("i32"))>>, 3),
            Variant(<<"A">>, "named", <<Prim("u8")>>, 4) >>)

\* enum Names { All, Of(Vec<String>) }
Names ==
    Enum("Names", "name", "",
         << Variant(<<"A">>, "unit", <<>>, 0),
            Variant(<<"O">>, "tuple", <<Vec(Prim("string"))>>, 1) >>)

ReprIdents == {"i8", "i16", "i32", "i64", "u8", "u16", "u32", "u64", ""}

\* #[glib_serde_repr] #[repr(r)] enum Level { Low = 2, High = 5 }
Level(r) ==
    Enum("Level", "repr", r,
         << Variant(<<"L">>, "unit", <<>>, 2), Variant(<<"H">>, "unit", <<>>, 5) >>)

\* #[glib_serde_repr] #[repr(r)] enum Event { Stop = 2, Go(u16) = 5, Move(u8, u8) = 3 }
Event(r) ==
    Enum("Event", "repr", r,
         << Variant(<<"S">>, "unit", <<>>, 2),
            Variant(<<"G">>, "tuple", <<Prim("u16")>>, 5),
            Variant(<<"M">>, "tuple", <<Prim("u8"), Prim("u8")>>, 3) >>)

EnumTypes ==
    {MyEnum, Color, Direction, Item, Msg, Names}
        \cup {Level(r) : r \in ReprIdents} \cup {Event(r) : r \in ReprIdents}

Types ==
    {Prim(n) : n \in PrimNames} \cup {Prim("object_path"), Prim("signature")}
        \cup {Option(Prim("i32")), Option(Prim("string")), Option(Option(Prim("bool"))),
              Vec(Prim("i32")), Vec(Prim("u8")), Vec(Prim("bool")), Vec(Prim("f64")),
              Vec(Prim("string")), Vec(Option(Prim("i16"))), Vec(MyNewtypeStruct),
              Vec(Direction),
              Map(Prim("u64"), Prim("string")), Map(Prim("i32"), Prim("i32")),
              Tuple(<<Prim("i32"), Prim("string")>>),
              Tuple(<<Prim("bool"), Option(Prim("u8")), Prim("unit")>>),
              MyNewtypeStruct, MyTupleStruct, MyUnitStruct, MyStruct, MySingleFieldStruct,
              WString, WOption, WVec, WInts}
        \cup EnumTypes

\* the numbers a value of an integer type or an f64 is drawn from
Numbers(name) ==
    CASE name = "u8" -> {0, 8, 255}
      [] name = "i16" -> {-3, 7}
      [] name = "u16" -> {0, 54}
      [] name = "i32" -> {-4, 0, 52}
      [] name = "u32" -> {8, 3050}
      [] name = "i64" -> {-100, 0}
      [] name = "u64" -> {2, 99}
      [] name = "f64" -> {-365, 0, 21}

\* the strings a String field is drawn from: "", "s", "/a"
Strings == {<<>>, <<"s">>, <<"/", "a">>}

SeqsUpTo(S, n) == UNION {[1..k -> S] : k \in 0..n}

RECURSIVE ValuesOf(_)
RECURSIVE FieldsOf(_)
\* the sequences of one value per type of ts
FieldsOf(ts) ==
    IF ts = <<>> THEN {<<>>}
    ELSE {<<x>> \o xs : x \in ValuesOf(Head(ts)), xs \in FieldsOf(Tail(ts))}

ValuesOf(t) ==
    CASE t.k = "bool" -> BOOLEAN
      [] t.k \in IntNames \cup {"f64"} -> Numbers(t.k)
      [] t.k = "string" -> Strings
      [] t.k = "unit" -> {"()"}
      [] t.k = "object_path" -> {s \in Strings \cup {<<"/">>} : is_object_path(s)}
      [] t.k = "signature" -> {s \in Strings \cup {<<"a", "s">>} : is_signature(s)}
      [] t.k = "option" -> {<<>>} \cup {<<x>> : x \in ValuesOf(t.of[1])}
      [] t.k = "vec" -> SeqsUpTo(ValuesOf(t.of[1]), MaxLen)
      [] t.k = "map" ->
            {m \in SeqsUpTo(ValuesOf(t.of[1]) \X ValuesOf(t.of[2]), MaxLen) :
                \A i \in 1..Len(m) - 1 : m[i][1] < m[i + 1][1]}
      [] t.k \in {"tuple", "struct"} -> FieldsOf(t.of)
      [] t.k = "enum" ->
            UNION {{<<i - 1, xs>> : xs \in FieldsOf(t.variants[i].of)} :
                      i \in 1..Len(t.variants)}

\* the strings handed to serialize_str on its own, and the nodes it is
\* called with
StrChars == {"/", "a", "s", "(", ")"}
StrNodes ==
    {VariantTypeNode(ty, <<>>) :
        ty \in {<<"o">>, <<"g">>, <<"s">>, <<"*">>, <<"i">>, <<"v">>, <<"m", "s">>,
                <<"a", "s">>, <<"(", "s", "v", ")">>}}

\* the tags handed to the decoder on their own
TagCodes == {"y", "n", "q", "i", "u", "x", "t"}

(***************************************************************************)
(* VariantType::variant_type() called from several threads.                *)
(*   TYP       the static Lazy of each type that derives VariantType: its  *)
(*             state (once_cell: incomplete, running, complete), the       *)
(*             thread that runs its closure and its node                   *)
(*   threads   each thread's call: the type it asked for, the stack of the *)
(*             variant_type() calls it is in, and what the call returned   *)
(*             (the node and where the node lives)                         *)
(*   built     how many times the node of each type was constructed        *)
(*   observed  every <<place, node>> a call for each type returned         *)
(***************************************************************************)
\* the threads that call variant_type()
NumThreads == 2
\* the calls the threads make, all together
MaxCalls == 3
\* the entries of a dictionary and the elements of an array handed to an accessor
MaxEntries == 3

Threads == 1..NumThreads

\* #[derive(VariantType)] returns Cow::Borrowed(&*TYP) of a static Lazy; the
\* impls of the crate for the types of std return a Cow::Owned
is_derived_never(t) == FALSE
is_derived(t) == t.k \in {"struct", "enum"}

Outer == Struct("Outer", "named", <<MyStruct, Option(Prim("string"))>>)

\* the types whose node is asked for, and those of them with a static
LazyTypes == {MyStruct, Outer, WOption, Option(Prim("string")), Tuple(<<MyStruct, Prim("u8")>>)}
LazyStatics == {t \in LazyTypes : is_derived(t)}

RECURSIVE DerivedCalls(_)
\* the derived types whose variant_type() is called, in order, while the node
\* of t is constructed
DerivedCalls(t) ==
    IF t.k \in PrimNames THEN <<>>
    ELSE Concat([i \in 1..Len(t.of) |->
                    IF is_derived(t.of[i]) THEN <<t.of[i]>> ELSE DerivedCalls(t.of[i])])

RECURSIVE Constructed(_)
\* the types whose node is constructed when that of t is: t and the fields
\* that do not keep theirs in a static; a derive of one field asks for the
\* node of the field twice, for its type and as its child
Constructed(t) ==
    IF t.k \in PrimNames THEN <<t>>
    ELSE LET of_fields == Concat([i \in 1..Len(t.of) |->
                                    IF is_derived(t.of[i]) THEN <<>> ELSE Constructed(t.of[i])])
         IN  <<t>> \o (IF t.k = "struct" /\ Len(t.of) = 1 THEN of_fields \o of_fields
                       ELSE of_fields)

Count(ts, u) == Cardinality({i \in 1..Len(ts) : ts[i] = u})

Incomplete == [state |-> "incomplete", owner |-> 0, node |-> <<>>]
Idle == [pc |-> "idle", ty |-> <<>>, stack |-> <<>>, node |-> <<>>, place |-> <<>>,
         calls |-> 0, waited |-> FALSE]

InitLazy ==
    /\ TYP = [t \in LazyStatics |-> Incomplete]
    /\ threads = [th \in Threads |-> Idle]
    /\ built = [t \in LazyTypes |-> 0]
    /\ observed = [t \in LazyTypes |-> {}]

\* the call th is in: the last of its stack
Top(th) == threads[th].stack[Len(threads[th].stack)]

\* the frame on top returns node, which lives at place: the caller goes on,
\* or the call of the thread returns
Returns(th, node, place) ==
    LET me == threads[th]
        rest == SubSeq(me.stack, 1, Len(me.stack) - 1)
    IN  IF rest = <<>>
        THEN /\ threads' = [threads EXCEPT ![th] =
                    [me EXCEPT !.pc = "got", !.stack = rest, !.node = node, !.place = place]]
             /\ observed' = [observed EXCEPT ![me.ty] = @ \cup {<<place, node>>}]
        ELSE /\ threads' = [threads EXCEPT ![th] = [me EXCEPT !.pc = "calling", !.stack = rest]]
             /\ UNCHANGED observed

RECURSIVE CallsOf(_)
\* the calls the first n threads have made
CallsOf(n) == IF n = 0 THEN 0 ELSE threads[n].calls + CallsOf(n - 1)

\* T::variant_type() is called by a thread
Request(th) ==
    /\ threads[th].pc \in {"idle", "got"}
    /\ CallsOf(NumThreads) < MaxCalls
    /\ \E t \in LazyTypes :
          threads' = [threads EXCEPT ![th] =
                [pc |-> "calling", ty |-> t, stack |-> <<t>>, node |-> <<>>, place |-> <<>>,
                 calls |-> threads[th].calls + 1, waited |-> FALSE]]
    /\ UNCHANGED <<TYP, built, observed>>

\* Lazy::force on a cell no thread has touched: this thread is the one to
\* run the closure
LazyForce(th) ==
    /\ threads[th].pc = "calling"
    /\ is_derived(Top(th))
    /\ TYP[Top(th)].state = "incomplete"
    /\ TYP' = [TYP EXCEPT ![Top(th)] = [@ EXCEPT !.state = "running", !.owner = th]]
    /\ UNCHANGED <<threads, built, observed>>

\* Lazy::force on a cell whose closure another thread runs: the thread parks
LazyWait(th) ==
    /\ threads[th].pc = "calling"
    /\ is_derived(Top(th))
    /\ TYP[Top(th)].state = "running"
    /\ TYP[Top(th)].owner # th
    /\ threads' = [threads EXCEPT ![th] = [@ EXCEPT !.pc = "parked", !.waited = TRUE]]
    /\ UNCHANGED <<TYP, built, observed>>

\* Lazy::force on a complete cell, at once or after the wait
LazyGet(th) ==
    /\ threads[th].pc \in {"calling", "parked"}
    /\ is_derived(Top(th))
    /\ TYP[Top(th)].state = "complete"
    /\ Returns(th, TYP[Top(th)].node, <<"static", Top(th).name>>)
    /\ UNCHANGED <<TYP, built>>

\* the body of variant_type(), as the closure of the Lazy or as the whole
\* impl: it asks for the nodes of the fields, then constructs its own
Construct(th) ==
    /\ threads[th].pc = "calling"
    /\ is_derived(Top(th)) => TYP[Top(th)].state = "running" /\ TYP[Top(th)].owner = th
    /\ LET t == Top(th)
           calls == DerivedCalls(t)
           pending == {i \in 1..Len(calls) : TYP[calls[i]].state # "complete"}
       IN  IF pending # {}
           THEN LET i == CHOOSE i \in pending : \A j \in pending : i <= j
                IN  /\ threads' = [threads EXCEPT ![th] =
                            [@ EXCEPT !.stack = Append(@, calls[i])]]
                    /\ UNCHANGED <<TYP, built, observed>>
           ELSE /\ built' = [u \in LazyTypes |-> built[u] + Count(Constructed(t), u)]
                /\ IF is_derived(t)
                   THEN /\ TYP' = [TYP EXCEPT ![t] =
                                [state |-> "complete", owner |-> th, node |-> variant_type(t)]]
                        /\ Returns(th, variant_type(t), <<"static", t.name>>)
                   ELSE /\ Returns(th, variant_type(t), <<"heap", th, threads[th].calls>>)
                        /\ UNCHANGED TYP

NextLazy ==
    \E th \in Threads :
        \/ Request(th) /\ UNCHANGED <<codec_vars, access_vars>>
        \/ LazyForce(th) /\ UNCHANGED <<codec_vars, access_vars>>
        \/ LazyWait(th) /\ UNCHANGED <<codec_vars, access_vars>>
        \/ LazyGet(th) /\ UNCHANGED <<codec_vars, access_vars>>
        \/ Construct(th) /\ UNCHANGED <<codec_vars, access_vars>>

(***************************************************************************)
(* The accessors the Deserializer hands to a visitor: ContainerDeserializer *)
(* (SeqAccess and MapAccess), FixedSeqDeserializer and VariantDeserializer *)
(* (SeqAccess).  The visitor drives them one call at a time.               *)
(*   access  the accessor: its kind, its input, its index, and the history *)
(*           of what its calls returned (out), the key whose value was not *)
(*           asked for yet (pending), the size_hint taken since the last   *)
(*           of these calls (hint), and                                    *)
(*           whether the build checks integer overflow (oc)                *)
(***************************************************************************)
AccessKeys == {str_to_variant("s", <<"a">>), str_to_variant("s", <<"b">>)}
AccessValues == {num_to_variant("u", 1), num_to_variant("u", 2)}
AccessEntries == {from_dict_entry(k, v) : k \in AccessKeys, v \in AccessValues}

\* the dictionaries on the wire: arrays of entries, a key may repeat
DictWires ==
    {Wire(<<"a", "{", "s", "u", "}">>, 0, <<>>, es) : es \in SeqsUpTo(AccessEntries, MaxEntries)}

\* the inputs of the three SeqAccess impls: an array or a tuple for
\* ContainerDeserializer, a packed array for FixedSeqDeserializer, the
\* content of a box for VariantDeserializer
SeqInputs(kind) ==
    CASE kind = "container" ->
            {Wire(<<"a", "u">>, 0, <<>>, xs) : xs \in SeqsUpTo(AccessValues, MaxEntries)}
            \cup {tuple_from_iter(xs) : xs \in SeqsUpTo(AccessKeys, MaxLen)}
      [] kind = "fixed" ->
            {array_from_fixed_array("y", ns) : ns \in SeqsUpTo({0, 7}, MaxEntries)}
      [] kind = "variant" ->
            {tuple_from_iter(xs) : xs \in SeqsUpTo(AccessValues, MaxLen)}

SeqKinds == {"container", "fixed", "variant"}

\* ContainerDeserializer::new, FixedSeqDeserializer::new, VariantDeserializer::new
new(kind, input, oc) ==
    [kind |-> kind, input |-> input, index |-> 0, out |-> <<>>,
     pending |-> FALSE, hint |-> None, oc |-> oc]

\* MapAccess::next_key_seed: the key of the entry at the index
next_key_seed(a) ==
    IF a.index >= n_children(a.input) THEN [a EXCEPT !.out = Append(@, <<"end">>)]
    ELSE LET entry == a.input.kids[a.index + 1]
         IN  [a EXCEPT !.out = Append(@, <<"key", entry.kids[1]>>), !.pending = TRUE]

\* next_value_seed with the index left where it was
next_value_seed_stay(a) ==
    LET entry == a.input.kids[a.index + 1]
    IN  [a EXCEPT !.out = Append(@, <<"value", entry.kids[2]>>), !.pending = FALSE]

\* MapAccess::next_value_seed: the value of the entry at the index, and the
\* index moves on
next_value_seed(a) ==
    LET entry == a.input.kids[a.index + 1]
    IN  [a EXCEPT !.index = @ + 1,
                  !.out = Append(@, <<"value", entry.kids[2]>>),
                  !.pending = FALSE]

\* MapAccess::next_entry_seed: key and value of the entry at the index
next_entry_seed(a) ==
    IF a.index >= n_children(a.input) THEN [a EXCEPT !.out = Append(@, <<"end">>)]
    ELSE LET entry == a.input.kids[a.index + 1]
         IN  [a EXCEPT !.index = @ + 1,
                       !.out = Append(@, <<"entry", entry.kids[1], entry.kids[2]>>)]

\* SeqAccess::next_element_seed of the three impls
next_element_seed(a) ==
    IF a.kind = "variant"
    THEN CASE a.index = 0 ->
                [a EXCEPT !.index = 1,
                          !.out = Append(@, <<"element", str_to_variant("s", a.input.sig)>>)]
           [] a.index = 1 ->
                [a EXCEPT !.index = 2,
                          !.out = Append(@, <<"element", a.input>>)]
           [] OTHER -> [a EXCEPT !.out = Append(@, <<"end">>)]
    ELSE IF a.index >= n_children(a.input)
         THEN [a EXCEPT !.out = Append(@, <<"end">>)]
    ELSE [a EXCEPT !.index = @ + 1,
                   !.out = Append(@, <<"element", a.input.kids[a.index + 1]>>)]

InitAccess == access = [kind |-> "none"]

\* deserialize_map hands a ContainerDeserializer to visit_map
MapBegin ==
    /\ access.kind = "none"
    /\ \E w \in DictWires : \E oc \in BOOLEAN : access' = new("map", w, oc)

\* deserialize_seq, deserialize_tuple and deserialize_tuple_struct hand one
\* of the three accessors to visit_seq
SeqBegin ==
    /\ access.kind = "none"
    /\ \E kind \in SeqKinds : \E w \in SeqInputs(kind) : \E oc \in BOOLEAN :
           access' = new(kind, w, oc)

\* the calls a visitor makes; a visitor asks for a value after a key, and
\* only then, and stops some calls after the end
MaxCallsAfterEnd == 2

Ends(a) == Cardinality({i \in 1..Len(a.out) : a.out[i] = <<"end">>})

NextKey ==
    /\ access.kind = "map"
    /\ ~access.pending
    /\ Ends(access) < MaxCallsAfterEnd
    /\ access' = [next_key_seed(access) EXCEPT !.hint = None]

NextValue ==
    /\ access.kind = "map"
    /\ access.pending
    /\ access' = [next_value_seed(access) EXCEPT !.hint = None]

NextEntry ==
    /\ access.kind = "map"
    /\ ~access.pending
    /\ Ends(access) < MaxCallsAfterEnd
    /\ access' = [next_entry_seed(access) EXCEPT !.hint = None]

NextElement ==
    /\ access.kind \in SeqKinds
    /\ Ends(access) < MaxCallsAfterEnd
    /\ access' = [next_element_seed(access) EXCEPT !.hint = None]

\* SeqAccess::size_hint and MapAccess::size_hint, which delegates to it
SizeHint ==
    /\ access.kind \in SeqKinds \cup {"map"}
    /\ access.hint = None
    /\ access' = [access EXCEPT !.hint = size_hint(n_children(access.input), access.index, access.oc)]

NextAccess ==
    \/ MapBegin /\ UNCHANGED <<codec_vars, lazy_vars>>
    \/ SeqBegin /\ UNCHANGED <<codec_vars, lazy_vars>>
    \/ NextKey /\ UNCHANGED <<codec_vars, lazy_vars>>
    \/ NextValue /\ UNCHANGED <<codec_vars, lazy_vars>>
    \/ NextEntry /\ UNCHANGED <<codec_vars, lazy_vars>>
    \/ NextElement /\ UNCHANGED <<codec_vars, lazy_vars>>
    \/ SizeHint /\ UNCHANGED <<codec_vars, lazy_vars>>

(***************************************************************************)
(* The state machine: one call of the public API per behaviour.            *)
(*   call  the operation and its inputs                                    *)
(*   enc   the result of the encoder                                       *)
(*   dec   the result of the decoder                                       *)
(*   pc    "start", "encoded" (to_variant returned), "decoded"             *)
(*         (from_variant returned), "done" (a Serializer method returned)  *)
(***************************************************************************)
Init ==
    /\ call = [op |-> "none"]
    /\ enc = None
    /\ dec = None
    /\ pc = "start"
    /\ InitLazy
    /\ InitAccess

\* to_variant(&x) for a value x of a declared type t
ToVariant ==
    /\ pc = "start"
    /\ \E t \in Types : \E x \in ValuesOf(t) :
          /\ call' = [op |-> "to_variant", t |-> t, x |-> x]
          /\ enc' = to_variant(t, x)
    /\ pc' = "encoded"
    /\ UNCHANGED dec
    /\ UNCHANGED <<lazy_vars, access_vars>>

\* from_variant::<T>(&variant) on the value to_variant returned, in a build
\* with or without overflow checks
FromVariant ==
    /\ pc = "encoded"
    /\ call.op = "to_variant"
    /\ enc.ok
    /\ \E oc \in BOOLEAN : dec' = from_variant(call.t, enc.v, oc)
    /\ pc' = "decoded"
    /\ UNCHANGED <<call, enc>>
    /\ UNCHANGED <<lazy_vars, access_vars>>

\* from_variant::<T>(&variant) for an enum T on a tag of any integer type,
\* alone or in a tuple with a boxed ()
FromTag ==
    /\ pc = "start"
    /\ \E t \in EnumTypes, code \in TagCodes, k \in 0..MaxTag, boxed \in BOOLEAN :
          LET tag == num_to_variant(code, k)
              w == IF boxed THEN tuple_from_iter(<<tag, from_variant_box(unit_to_variant)>>)
                   ELSE tag
          IN  /\ call' = [op |-> "from_variant", t |-> t, w |-> w]
              /\ \E oc \in BOOLEAN : dec' = from_variant(t, w, oc)
    /\ pc' = "decoded"
    /\ UNCHANGED enc
    /\ UNCHANGED <<lazy_vars, access_vars>>

\* the names handed to the decoder as tags: those of variants and two of none
TagNames == {<<"A">>, <<"R">>, <<"N">>, <<"Z">>, <<>>}

\* from_variant::<T>(&variant) for an enum T on a tag that is a string, alone
\* or in a tuple with a boxed ()
FromName ==
    /\ pc = "start"
    /\ \E t \in EnumTypes, name \in TagNames, boxed \in BOOLEAN :
          LET tag == str_to_variant("s", name)
              w == IF boxed THEN tuple_from_iter(<<tag, from_variant_box(unit_to_variant)>>)
                   ELSE tag
          IN  /\ call' = [op |-> "from_name", t |-> t, w |-> w]
              /\ \E oc \in BOOLEAN : dec' = from_variant(t, w, oc)
    /\ pc' = "decoded"
    /\ UNCHANGED enc
    /\ UNCHANGED <<lazy_vars, access_vars>>

\* Serializer::new(&node).serialize_str(v)
SerializeStr ==
    /\ pc = "start"
    /\ \E node \in StrNodes, v \in SeqsUpTo(StrChars, MaxStrLen) :
          /\ call' = [op |-> "serialize_str", node |-> node, v |-> v]
          /\ enc' = serialize_str(node, v)
    /\ pc' = "done"
    /\ UNCHANGED dec
    /\ UNCHANGED <<lazy_vars, access_vars>>

\* the nodes serialize_none / serialize_some are called with: the node of
\* Option<T>, a node of a maybe signature without children, and the node the
\* derive gives a struct of one Option field
OptionPayloads == {Prim("i32"), Prim("string"), Option(Prim("bool"))}
OptionNodes ==
    {variant_type(Option(t)) : t \in OptionPayloads}
        \cup {VariantTypeNode(<<"m">> \o static_variant_type(t), <<>>) : t \in OptionPayloads}
        \cup {variant_type(WOption)}

\* value.serialize(Serializer::new(&node)) for a value x of Option<T>
SerializeOption ==
    /\ pc = "start"
    /\ \E node \in OptionNodes, t \in OptionPayloads : \E x \in ValuesOf(Option(t)) :
          /\ call' = [op |-> "serialize_option", node |-> node, t |-> t, x |-> x]
          /\ enc' = Serialize(Option(t), x, node)
    /\ pc' = "done"
    /\ UNCHANGED dec
    /\ UNCHANGED <<lazy_vars, access_vars>>

\* the Rust type whose elements have the fixed-size code
CodeType(code) == Prim(CHOOSE n \in PrimNames : PrimSig(n) = <<code>>)

\* xs.serialize(Serializer::new(&node)) for a slice xs of a fixed-size type,
\* under the node of the array of that type
SerializeSeq ==
    /\ pc = "start"
    /\ \E code \in FixedCodes : \E xs \in ValuesOf(Vec(CodeType(code))) :
          /\ call' = [op |-> "serialize_seq", code |-> code, xs |-> xs]
          /\ enc' = Serialize(Vec(CodeType(code)), xs, variant_type(Vec(CodeType(code))))
    /\ pc' = "done"
    /\ UNCHANGED dec
    /\ UNCHANGED <<lazy_vars, access_vars>>

\* the vectors that are serialized under the node of another type
UnderTypes == {Vec(Prim("i32")), Vec(Prim("string")), Vec(Option(Prim("string")))}

\* x.serialize(Serializer::new(&node)) for a Vec x, under the node of a Vec
\* of any element type
SerializeUnder ==
    /\ pc = "start"
    /\ \E t \in UnderTypes, u \in UnderTypes : \E x \in ValuesOf(t) :
          /\ call' = [op |-> "serialize_under", t |-> t, u |-> u, x |-> x]
          /\ enc' = Serialize(t, x, variant_type(u))
    /\ pc' = "done"
    /\ UNCHANGED dec
    /\ UNCHANGED <<lazy_vars, access_vars>>

\* the tuples and structs of several fields a wire value is decoded as
TupleTargets == {Tuple(<<Prim("i32"), Prim("string")>>), MyStruct, MyTupleStruct}

\* the children of the wire tuples
TupleChildren ==
    {num_to_variant("i", 52), num_to_variant("u", 8), num_to_variant("t", 2),
     num_to_variant("d", 21), str_to_variant("s", <<"s">>), from_none(<<"s">>)}

\* the wire values handed to from_variant: the tuples of up to MaxChildren
\* children, a number and an array
TupleWires ==
    {tuple_from_iter(c) : c \in SeqsUpTo(TupleChildren, MaxChildren)}
        \cup {num_to_variant("i", 52),
              array_from_fixed_array("i", <<52, 52>>)}

\* from_variant::<T>(&w) for a tuple or a struct T of several fields
DecodeTuple ==
    /\ pc = "start"
    /\ \E t \in TupleTargets, w \in TupleWires :
          /\ call' = [op |-> "decode_tuple", t |-> t, w |-> w]
          /\ \E oc \in BOOLEAN : dec' = from_variant(t, w, oc)
    /\ pc' = "decoded"
    /\ UNCHANGED enc
    /\ UNCHANGED <<lazy_vars, access_vars>>

(***************************************************************************)
(* The dynamic box: Serialize and Deserialize for Variant, the wrapper of  *)
(* a wire value of any type.  The value is handed to serde as the tuple    *)
(* struct "glib_serde::$Variant" of its type string and its content.       *)
(***************************************************************************)
STRUCT_NAME == "glib_serde::$Variant"

\* VariantTy::is_basic
is_basic(ty) ==
    Len(ty) = 1 /\ ty[1] \in {"b", "y", "n", "q", "i", "u", "x", "t", "h", "d", "s", "o", "g", "?"}

RECURSIVE CountItems(_, _)
CountItems(ty, i) == IF ItemAt(ty, i) = <<>> THEN 0 ELSE 1 + CountItems(ty, TypeEnd(ty, i))

\* VariantTy::n_items of a tuple type
n_items(ty) == CountItems(ty, 2)

\* the value of a wire value of a fixed-size type, as try_get::<T> gives it
FixedValue(w) == IF w.sig = <<"b">> THEN w.n # 0 ELSE w.n

RECURSIVE VariantSerializeInput(_, _)
RECURSIVE SerializeVariant(_, _)
RECURSIVE SerializeInputs(_, _, _)
RECURSIVE SerializeEntries(_, _, _)
RECURSIVE PackInputs(_, _, _)

\* VariantSerializeInput(child).serialize(U64Serializer) for the children
\* xs[i..] of an array on the packed path
PackInputs(code, xs, i) ==
    IF i > Len(xs) THEN Ok(<<>>)
    ELSE LET r == IF Len(xs[i].sig) = 1 /\ xs[i].sig[1] \in FixedCodes
                  THEN U64Serializer(CodeType(xs[i].sig[1]), FixedValue(xs[i]))
                  ELSE Err("Custom")
         IN  IF ~r.ok THEN r
             ELSE LET rest == PackInputs(code, xs, i + 1)
                  IN  IF ~rest.ok THEN rest ELSE Ok(<<FromU64(code, r.v)>> \o rest.v)

\* VariantSerializeInput(xs[i]).serialize(Serializer::new(nodes[i])) for
\* every i from the index on, up to the first failure
SerializeInputs(xs, nodes, i) ==
    IF i > Len(xs) THEN Ok(<<>>)
    ELSE LET r == VariantSerializeInput(xs[i], nodes[i])
         IN  IF ~r.ok THEN r
             ELSE LET rest == SerializeInputs(xs, nodes, i + 1)
                  IN  IF ~rest.ok THEN rest ELSE Ok(<<r.v>> \o rest.v)

\* MapSerializer::serialize_entry for the entries xs[i..] of a dictionary
SerializeEntries(node, xs, i) ==
    IF i > Len(xs) THEN Ok(<<>>)
    ELSE LET k == VariantSerializeInput(xs[i].kids[1], child_type_or_default(node, 0))
         IN  IF ~k.ok THEN k
             ELSE LET w == VariantSerializeInput(xs[i].kids[2], child_type_or_default(node, 1))
                  IN  IF ~w.ok THEN w
                      ELSE LET rest == SerializeEntries(node, xs, i + 1)
                           IN  IF ~rest.ok THEN rest
                               ELSE Ok(<<from_dict_entry(k.v, w.v)>> \o rest.v)

\* impl Serialize for VariantSerializeInput: the content of the wire value
\* x, handed to Serializer::new(node) by its class
VariantSerializeInput(x, node) ==
    LET c == x.sig[1]
        \* serialize_bool .. serialize_f64, serialize_str, and
        \* serialize_newtype_struct with the name of ObjectPath or Signature
        t == CASE c = "s" -> Prim("string")
               [] c = "o" -> Prim("object_path")
               [] c = "g" -> Prim("signature")
               [] OTHER -> CodeType(c)
        v == IF c \in {"s", "o", "g"} THEN x.s ELSE FixedValue(x)
    IN  CASE c \in FixedCodes \cup {"s", "o", "g"} -> Serialize(t, v, node)
          [] c = "h" -> Err("Custom")
          [] c = "v" -> SerializeVariant(x.kids[1], node)
          [] c = "m" ->
                IF x.kids = <<>> THEN serialize_none(node)
                ELSE LET ty == child_type_or_default(node, 0)
                         r == VariantSerializeInput(x.kids[1], ty)
                     IN  IF ~r.ok THEN r
                         ELSE IF ~is_of_type(r.v, ty.ty) THEN Err("Mismatch")
                         ELSE Ok(from_some(r.v))
          [] c = "a" ->
                IF is_dict_entry(element(x.sig))
                THEN LET r == SerializeEntries(node, x.kids, 1)
                     IN  IF ~r.ok THEN r ELSE array_from_variant_iter(node.ty, r.v)
                ELSE IF element(x.sig) = <<"y">>
                     THEN Ok(array_from_fixed_array("y", [i \in 1..Len(x.kids) |-> x.kids[i].n]))
                ELSE IF is_array(node.ty) /\ Len(node.ty) = 2 /\ node.ty[2] \in FixedCodes
                     THEN LET r == PackInputs(node.ty[2], x.kids, 1)
                          IN  IF ~r.ok THEN r ELSE Ok(array_from_fixed_array(node.ty[2], r.v))
                ELSE LET r == SerializeInputs(x.kids,
                                              [i \in 1..Len(x.kids) |->
                                                  child_type_or_default(node, 0)], 1)
                     IN  IF ~r.ok THEN r ELSE array_from_variant_iter(node.ty, r.v)
          [] c = "(" ->
                IF x.kids = <<>> THEN Ok(unit_to_variant)
                ELSE LET r == SerializeInputs(x.kids,
                                              [i \in 1..Len(x.kids) |->
                                                  child_type_or_default(node, i - 1)], 1)
                     IN  IF ~r.ok THEN r ELSE Ok(tuple_from_iter(r.v))
          [] c = "{" -> Err("Custom")

\* a TupleSerializer::end that returns the content without its box
SerializeVariant_unboxed(x, node) ==
    LET tag == serialize_str(child_type_or_default(node, 0), x.sig)
    IN  IF ~tag.ok THEN tag
        ELSE IF ~IsTypeString(tag.v.s) THEN Err("Bool")
        ELSE LET r == VariantSerializeInput(x, VariantTypeNode(tag.v.s, <<>>))
             IN  IF ~r.ok THEN r
                 ELSE IF tag.v.s # r.v.sig THEN Panic("assertion failed: left == right")
                 ELSE Ok(r.v)

\* impl Serialize for Variant with the TupleSerializer of the name
\* STRUCT_NAME: the type string against child 0 of the node, the content
\* against a node of that type, and end, which asserts that the content has
\* the type of the string and returns it in a box
SerializeVariant(x, node) ==
    LET tag == serialize_str(child_type_or_default(node, 0), x.sig)
    IN  IF ~tag.ok THEN tag
        ELSE IF ~IsTypeString(tag.v.s) THEN Err("Bool")
        ELSE LET r == VariantSerializeInput(x, VariantTypeNode(tag.v.s, <<>>))
             IN  IF ~r.ok THEN r
                 ELSE IF tag.v.s # r.v.sig THEN Panic("assertion failed: left == right")
                 ELSE Ok(from_variant_box(r.v))

RECURSIVE VariantDeserializeInput(_, _)
RECURSIVE DeserializeVariant(_)
RECURSIVE VisitArray(_, _, _)
RECURSIVE VisitTuple(_, _, _)
RECURSIVE VisitEntries(_, _, _, _)

\* VariantValueVisitor::visit_seq for an array type: next_element_seed with
\* the element type for the children kids[i..], each checked against it
VisitArray(elem, kids, i) ==
    IF i > Len(kids) THEN Ok(<<>>)
    ELSE LET r == VariantDeserializeInput(elem, kids[i])
         IN  IF ~r.ok THEN r
             ELSE IF ~is_of_type(r.v, elem) THEN Err("Custom")
             ELSE LET rest == VisitArray(elem, kids, i + 1)
                  IN  IF ~rest.ok THEN rest ELSE Ok(<<r.v>> \o rest.v)

\* VariantValueVisitor::visit_seq for a tuple type: one child for every item
\* of the type, from the i-th on
VisitTuple(ty, kids, i) ==
    IF i > n_items(ty) THEN Ok(<<>>)
    ELSE IF i > Len(kids) THEN Err("Custom")
    ELSE LET elem == NthItemFrom(ty, 2, i - 1)
             r == VariantDeserializeInput(elem, kids[i])
         IN  IF ~r.ok THEN r
             ELSE IF ~is_of_type(r.v, elem) THEN Err("Custom")
             ELSE LET rest == VisitTuple(ty, kids, i + 1)
                  IN  IF ~rest.ok THEN rest ELSE Ok(<<r.v>> \o rest.v)

\* VariantValueVisitor::visit_map: next_entry_seed with the key and value
\* types for the entries kids[i..]
VisitEntries(key_type, value_type, kids, i) ==
    IF i > Len(kids) THEN Ok(<<>>)
    ELSE LET k == VariantDeserializeInput(key_type, kids[i].kids[1])
         IN  IF ~k.ok THEN k
             ELSE LET w == VariantDeserializeInput(value_type, kids[i].kids[2])
                  IN  IF ~w.ok THEN w
                      ELSE IF ~is_of_type(k.v, key_type) \/ ~is_of_type(w.v, value_type)
                           THEN Err("Custom")
                      ELSE LET rest == VisitEntries(key_type, value_type, kids, i + 1)
                           IN  IF ~rest.ok THEN rest
                               ELSE Ok(<<Wire(<<"{">> \o key_type \o value_type \o <<"}">>,
                                              0, <<>>, <<k.v, w.v>>)>> \o rest.v)

\* impl DeserializeSeed for VariantDeserializeInput: the wire value w read
\* as a value of the type ty, through the deserialize_* method the type
\* selects and the VariantValueVisitor
VariantDeserializeInput(ty, w) ==
    IF is_basic(ty)
    THEN CASE ty[1] \in FixedCodes ->
                 IF w.sig = ty THEN Ok(num_to_variant(ty[1], w.n)) ELSE Err("Mismatch")
           [] ty[1] = "s" -> IF IsStr(w) THEN Ok(str_to_variant("s", w.s)) ELSE Err("StrMismatch")
           [] ty[1] = "o" ->
                 IF ~IsStr(w) THEN Err("StrMismatch")
                 ELSE IF is_object_path(w.s) THEN Ok(str_to_variant("o", w.s))
                 ELSE Err("Custom")
           [] ty[1] = "g" ->
                 IF ~IsStr(w) THEN Err("StrMismatch")
                 ELSE IF is_signature(w.s) THEN Ok(str_to_variant("g", w.s))
                 ELSE Err("Custom")
           [] ty[1] = "h" -> Err("Custom")
           [] OTHER -> Panic("not implemented")
    ELSE IF is_array(ty)
    THEN LET elem == element(ty)
         IN  IF elem = <<"y">>
             THEN IF w.sig = <<"a", "y">>
                  THEN Ok(array_from_fixed_array("y", [i \in 1..Len(w.kids) |-> w.kids[i].n]))
                  ELSE Err("Mismatch")
             ELSE IF is_dict_entry(elem)
                  THEN IF ~is_of_type(w, VARIANT_TY_DICTIONARY) THEN Err("Mismatch")
                       ELSE LET r == VisitEntries(key(elem), value(elem), w.kids, 1)
                            IN  IF ~r.ok THEN r ELSE Ok(Wire(ty, 0, <<>>, r.v))
             ELSE IF is_array(w.sig) /\ Len(w.sig) = 2 /\ w.sig[2] \in FixedCodes
                  THEN IF w.kids # <<>> /\ element(w.sig) # elem THEN Err("Custom")
                       ELSE Ok(Wire(ty, 0, <<>>,
                                    [i \in 1..Len(w.kids) |->
                                        num_to_variant(w.sig[2], w.kids[i].n)]))
             ELSE IF is_array(w.sig) \/ is_tuple(w.sig)
                  THEN LET r == VisitArray(elem, w.kids, 1)
                       IN  IF ~r.ok THEN r ELSE Ok(Wire(ty, 0, <<>>, r.v))
             ELSE Err("UnsupportedType")
    ELSE IF is_tuple(ty)
    THEN IF n_items(ty) > 0
         THEN IF ~is_of_type(w, VARIANT_TY_TUPLE) THEN Err("Mismatch")
              ELSE IF n_children(w) # n_items(ty) THEN LengthMismatch(n_children(w), n_items(ty))
              ELSE LET r == VisitTuple(ty, w.kids, 1)
                   IN  IF ~r.ok THEN r ELSE Ok(Wire(ty, 0, <<>>, r.v))
         ELSE IF w.sig = VARIANT_TY_UNIT THEN Ok(unit_to_variant) ELSE Err("Mismatch")
    ELSE IF is_maybe(ty)
    THEN IF ~is_of_type(w, VARIANT_TY_MAYBE) THEN Err("Mismatch")
         ELSE IF w.kids = <<>> THEN Ok(from_none(element(ty)))
         ELSE LET r == VariantDeserializeInput(element(ty), w.kids[1])
              IN  IF ~r.ok THEN r ELSE Ok(from_some(r.v))
    ELSE IF ty = VARIANT_TY_VARIANT
    THEN LET r == DeserializeVariant(w)
         IN  IF ~r.ok THEN r ELSE Ok(from_variant_box(r.v))
    ELSE Err("Custom")

\* impl Deserialize for Variant: deserialize_tuple_struct with the name
\* STRUCT_NAME on the box w, and VariantVisitor::visit_seq on the
\* VariantDeserializer, which gives the type string of the content of the box
\* and then the content
DeserializeVariant(w) ==
    IF ~is_of_type(w, VARIANT_TY_VARIANT) THEN Err("Mismatch")
    ELSE LET inner == w.kids[1]
             tag == inner.sig
         IN  IF ~IsTypeString(tag) THEN Err("Custom")
             ELSE IF ~IsDefinite(tag) THEN Err("Custom")
             ELSE VariantDeserializeInput(tag, inner)

\* the wire values put in a box: scalars and strings, the containers of
\* them, and the containers of a few of those containers
BoxLeaves ==
    {num_to_variant("b", 1), num_to_variant("y", 8), num_to_variant("n", -3),
     num_to_variant("q", 54), num_to_variant("i", 52), num_to_variant("i", -4),
     num_to_variant("u", 3050), num_to_variant("x", -100), num_to_variant("t", 99),
     num_to_variant("d", 21), str_to_variant("s", <<"s">>), str_to_variant("s", <<>>),
     str_to_variant("o", <<"/", "a">>), str_to_variant("g", <<"a", "s">>)}

BoxKeys == {str_to_variant("s", <<"s">>), num_to_variant("x", -100)}

Containers(S) ==
    {from_none(w.sig) : w \in S} \cup {from_some(w) : w \in S}
        \cup {from_variant_box(w) : w \in S}
        \cup UNION {{Wire(<<"a">> \o w.sig, 0, <<>>, c) :
                        c \in SeqsUpTo({e \in S : e.sig = w.sig}, MaxLen)} : w \in S}
        \cup UNION {{Wire(<<"a">> \o from_dict_entry(k, w).sig, 0, <<>>, c) :
                        c \in {<<>>, <<from_dict_entry(k, w)>>}} : k \in BoxKeys, w \in S}
        \cup {tuple_from_iter(c) : c \in SeqsUpTo(S, 2)}

BoxSample ==
    {from_none(<<"s">>), from_some(num_to_variant("i", 52)),
     from_variant_box(str_to_variant("s", <<"s">>)),
     Wire(<<"a", "i">>, 0, <<>>, <<num_to_variant("i", 52), num_to_variant("i", -4)>>),
     Wire(<<"a", "s">>, 0, <<>>, <<>>),
     tuple_from_iter(<<num_to_variant("i", 52), str_to_variant("s", <<"s">>)>>),
     unit_to_variant,
     Wire(<<"a", "{", "s", "v", "}">>, 0, <<>>,
          <<from_dict_entry(str_to_variant("s", <<"s">>),
                            from_variant_box(num_to_variant("i", 52)))>>)}

BoxValues == BoxLeaves \cup Containers(BoxLeaves) \cup Containers(BoxSample)

\* from_variant::<Variant>(&b) for the box b of a wire value x
DecodeBox ==
    /\ pc = "start"
    /\ \E x \in BoxValues :
          /\ call' = [op |-> "decode_box", x |-> x]
          /\ dec' = DeserializeVariant(from_variant_box(x))
    /\ pc' = "unboxed"
    /\ UNCHANGED enc
    /\ UNCHANGED <<lazy_vars, access_vars>>

\* to_variant(&v) for the Variant v that from_variant returned
EncodeBox ==
    /\ pc = "unboxed"
    /\ dec.ok
    /\ enc' = SerializeVariant(dec.v, VariantTypeNode(VARIANT_TY_VARIANT, <<>>))
    /\ pc' = "reboxed"
    /\ UNCHANGED <<call, dec>>
    /\ UNCHANGED <<lazy_vars, access_vars>>

(***************************************************************************)
(* FlagsValue<T>: a flags value written by name.  The registry of T (its  *)
(* FlagsClass) is the sequence of its [nick, value] members in declaration *)
(* order; the value is a u32, here below 2^MaxFlagBits.                    *)
(***************************************************************************)
RECURSIVE BitAnd(_, _)
\* a & b
BitAnd(a, b) ==
    IF a = 0 \/ b = 0 THEN 0 ELSE (a % 2) * (b % 2) + 2 * BitAnd(a \div 2, b \div 2)

\* a | b
BitOr(a, b) == a + b - BitAnd(a, b)

\* #[glib::flags] enum MyFlags { A = 1 (nick "nick-a"), B = 2, AB (skipped), C = 4 }
MyFlags ==
    << [nick |-> <<"n", "a">>, value |-> 1], [nick |-> <<"b">>, value |-> 2],
       [nick |-> <<"c">>, value |-> 4] >>

\* a flags type with a member of the value 0, as GApplicationFlags has
NoneFlags ==
    << [nick |-> <<"n">>, value |-> 0], [nick |-> <<"a">>, value |-> 1],
       [nick |-> <<"b">>, value |-> 2] >>

\* a flags type with a member of two bits one of which is no member alone, as
\* GRegexCompileFlags has (NEWLINE_CR and NEWLINE_ANYCRLF)
MaskFlags ==
    << [nick |-> <<"a">>, value |-> 1], [nick |-> <<"a", "b">>, value |-> 3],
       [nick |-> <<"b", "b">>, value |-> 4] >>

Registries == {MyFlags, NoneFlags, MaskFlags}

RECURSIVE FlagsFmt(_, _, _, _)
\* the loop of Display::fmt over class.values() from the i-th member on
FlagsFmt(class, i, bits, s) ==
    IF i > Len(class) THEN s
    ELSE LET v == class[i].value
         IN  IF BitAnd(bits, v) = v
             THEN FlagsFmt(class, i + 1, bits - v,
                           IF s = <<>> THEN class[i].nick ELSE s \o <<"|">> \o class[i].nick)
             ELSE FlagsFmt(class, i + 1, bits, s)

\* impl Display for FlagsValue<T>
flags_to_string(class, bits) == FlagsFmt(class, 1, bits, <<>>)

\* FlagsClass::value_by_nick: <<>> for None, else <<the first member of the nick>>
value_by_nick(class, item) ==
    IF \E i \in 1..Len(class) : class[i].nick = item
    THEN <<class[CHOOSE i \in 1..Len(class) :
                    /\ class[i].nick = item
                    /\ \A j \in 1..(i - 1) : class[j].nick # item].value>>
    ELSE <<>>

\* the bytes of the UTF-8 encoding of a character
ByteLen(c) == IF c = "é" THEN 2 ELSE 1

RECURSIVE FromStrLoop(_, _, _, _, _)
\* the loop of FromStr::from_str: s the rest of the input, cur_start the
\* input from the start of the current item, count the bytes of the item
\* read so far.  &s[0..1] panics inside a character of several bytes.
FromStrLoop(class, s, cur_start, count, bits) ==
    LET is_end == s = <<>>
    IN  IF ~is_end /\ ByteLen(s[1]) > 1 THEN Panic("byte index 1 is not a char boundary")
        ELSE IF is_end \/ s[1] = "|"
             THEN LET v == value_by_nick(class, SubSeq(cur_start, 1, count))
                  IN  IF v = <<>> THEN Err("ParseFlagsError")
                      ELSE IF is_end THEN Ok(BitOr(bits, v[1]))
                      ELSE FromStrLoop(class, Tail(s), Tail(s), 0, BitOr(bits, v[1]))
        ELSE FromStrLoop(class, Tail(s), cur_start, count + 1, bits)

\* impl FromStr for FlagsValue<T>
flags_from_str(class, s) == IF s = <<>> THEN Ok(0) ELSE FromStrLoop(class, s, s, 0, 0)

\* impl Serialize for FlagsValue<T>, under the node of its type, "s"
flags_serialize(class, bits) ==
    serialize_str(VariantTypeNode(<<"s">>, <<>>), flags_to_string(class, bits))

\* impl Deserialize for FlagsValue<T>: deserialize_str and the visit_str of
\* the FlagsVisitor
flags_deserialize(class, w) ==
    IF ~IsStr(w) THEN Err("StrMismatch")
    ELSE LET r == flags_from_str(class, w.s)
         IN  IF IsErr(r) THEN Err("Custom") ELSE r

\* the characters of the strings decoded as flags
FlagChars == {"a", "b", "n", "|", "é"}

\* to_variant(&FlagsValue::<T>::from(flags))
FlagsToVariant ==
    /\ pc = "start"
    /\ \E class \in Registries, bits \in 0..(2 ^ MaxFlagBits - 1) :
          /\ call' = [op |-> "flags_to_variant", class |-> class, value |-> bits]
          /\ enc' = flags_serialize(class, bits)
    /\ pc' = "flags_encoded"
    /\ UNCHANGED dec
    /\ UNCHANGED <<lazy_vars, access_vars>>

\* from_variant::<FlagsValue<T>>(&v) for the value v that to_variant returned
FlagsRoundTrip ==
    /\ pc = "flags_encoded"
    /\ enc.ok
    /\ dec' = flags_deserialize(call.class, enc.v)
    /\ pc' = "flags_decoded"
    /\ UNCHANGED <<call, enc>>
    /\ UNCHANGED <<lazy_vars, access_vars>>

\* from_variant::<FlagsValue<T>>(&s.to_variant()) for a string s
FlagsFromVariant ==
    /\ pc = "start"
    /\ \E class \in Registries, s \in SeqsUpTo(FlagChars, MaxFlagsLen) :
          /\ call' = [op |-> "flags_from_variant", class |-> class, s |-> s]
          /\ dec' = flags_deserialize(class, str_to_variant("s", s))
    /\ pc' = "flags_decoded"
    /\ UNCHANGED enc
    /\ UNCHANGED <<lazy_vars, access_vars>>

\* the integer types narrower than 64 bits
NarrowNames == {"i8", "u8", "i16", "u16", "i32", "u32"}

\* the numbers of a wire integer of the code
WireNumbers(code) ==
    CASE code = "x" -> {-40000, -100, 0, 100, 300, 70000}
      [] code = "t" -> {0, 100, 300, 70000}
      [] code = "n" -> {-100, 0, 100, 300}

\* from_variant::<T>(&w) for a narrow integer type T and a wire integer w
DecodeInt ==
    /\ pc = "start"
    /\ \E name \in NarrowNames, code \in {"x", "t", "n"} : \E n \in WireNumbers(code) :
          /\ call' = [op |-> "decode_int", t |-> Prim(name), w |-> num_to_variant(code, n)]
          /\ \E oc \in BOOLEAN : dec' = from_variant(Prim(name), num_to_variant(code, n), oc)
    /\ pc' = "decoded"
    /\ UNCHANGED enc
    /\ UNCHANGED <<lazy_vars, access_vars>>

\* the nodes child_type_or_default is asked about: the nodes of some types,
\* and nodes without children of some signatures
ChildNodes ==
    {variant_type(t) : t \in {Option(Prim("string")), MyStruct, Map(Prim("string"), Prim("i32")),
                              Tuple(<<Prim("i32"), Prim("string")>>)}}
    \cup {VariantTypeNode(ty, <<>>) :
            ty \in {<<"s">>, <<"v">>, <<"a", "s">>, <<"m", "s">>, <<"a", "a", "s">>,
                    <<"a", "{", "s", "v", "}">>, <<"m", "{", "s", "v", "}">>,
                    <<"{", "s", "v", "}">>, <<"(", ")">>, <<"(", "i", "s", ")">>,
                    <<"(", "i", "(", "s", "s", ")", "a", "v", ")">>, <<"a", "(", "i", "s", ")">>}}

\* child_type_or_default(&node, index)
ChildType ==
    /\ pc = "start"
    /\ \E node \in ChildNodes, index \in 0..MaxChildren :
          /\ call' = [op |-> "child_type", node |-> node, index |-> index]
          /\ enc' = Ok(child_type_or_default(node, index))
    /\ pc' = "done"
    /\ UNCHANGED dec
    /\ UNCHANGED <<lazy_vars, access_vars>>

\* what stands after the tag in the wire values decoded as an Item: nothing,
\* a value that is no box, or a box
EnumPayloads ==
    LET i52 == num_to_variant("i", 52)
        i8 == num_to_variant("i", 8)
    IN  {unit_to_variant, i52, str_to_variant("s", <<"s">>),
         tuple_from_iter(<<i52>>), tuple_from_iter(<<i52, i8>>),
         tuple_from_iter(<<i52, i8, i52>>), tuple_from_iter(<<i52, i8, i52, i8>>),
         array_from_fixed_array("i", <<52, 8>>), array_from_fixed_array("i", <<52, 8, 52>>)}

\* the wire values decoded as an Item, for a tag
EnumWires(tag) ==
    {tag, tuple_from_iter(<<tag>>), from_variant_box(tag), from_some(tag),
     Wire(<<"a">> \o tag.sig, 0, <<>>, <<tag, tag>>),
     Wire(<<"a">> \o tag.sig, 0, <<>>, <<>>),
     tuple_from_iter(<<tag, num_to_variant("i", 52)>>)}
        \cup {tuple_from_iter(<<tag, from_variant_box(p)>>) : p \in EnumPayloads}

\* from_variant::<Item>(&w) for a tag alone, in a container of its own, or in
\* a tuple with a payload
DecodeEnum ==
    /\ pc = "start"
    /\ \E k \in 0..MaxTag : \E w \in EnumWires(num_to_variant("u", k)) :
          /\ call' = [op |-> "decode_enum", t |-> Item, w |-> w]
          /\ \E oc \in BOOLEAN : dec' = from_variant(Item, w, oc)
    /\ pc' = "decoded"
    /\ UNCHANGED enc
    /\ UNCHANGED <<lazy_vars, access_vars>>

\* what a visitor is shown: the method of the Visitor that is called, and
\* the wire value whose content it is called with
Visited(method, w) == Ok([visit |-> method, of |-> w])

RECURSIVE deserialize_any(_)
\* Deserializer::deserialize_any: the deserialize_* method the class of the
\* wire value is sent to, up to the call of the visitor
deserialize_any(w) ==
    LET c == w.sig[1]
    IN  CASE c = "b" -> Visited("visit_bool", w)
          [] c = "y" -> Visited("visit_u8", w)
          [] c = "n" -> Visited("visit_i16", w)
          [] c = "q" -> Visited("visit_u16", w)
          [] c = "i" -> Visited("visit_i32", w)
          [] c = "u" -> Visited("visit_u32", w)
          [] c = "x" -> Visited("visit_i64", w)
          [] c = "t" -> Visited("visit_u64", w)
          \* deserialize_bool: try_get::<bool>() of a double
          [] c = "d" -> Err("Mismatch")
          [] c \in {"s", "o", "g"} -> Visited("visit_str", w)
          [] c = "v" -> deserialize_any(w.kids[1])
          [] c = "m" -> IF w.kids = <<>> THEN Visited("visit_none", w)
                        ELSE Visited("visit_some", w.kids[1])
          [] c = "a" -> IF element(w.sig) = <<"y">> THEN Visited("visit_bytes", w)
                        ELSE IF is_dict_entry(element(w.sig)) THEN Visited("visit_map", w)
                        ELSE Visited("visit_seq", w)
          [] c = "(" -> IF n_children(w) > 0 THEN Visited("visit_seq", w)
                        ELSE Visited("visit_unit", w)
          \* deserialize_tuple(2): is_of_type(VariantTy::TUPLE) of a dict entry
          [] c = "{" -> Err("Mismatch")
          [] OTHER -> Err("UnsupportedType")

\* the wire values a self-describing target is decoded from
AnyWires ==
    LET flat == {num_to_variant(code, 1) : code \in {"b", "y", "n", "q", "i", "u", "x", "t", "d", "h"}}
                    \cup {str_to_variant(code, <<"/">>) : code \in {"s", "o", "g"}}
                    \cup {unit_to_variant, from_none(<<"s">>),
                          from_some(str_to_variant("s", <<"s">>)),
                          array_from_fixed_array("y", <<8, 0>>),
                          array_from_fixed_array("i", <<>>),
                          from_dict_entry(str_to_variant("s", <<"s">>), num_to_variant("i", 1)),
                          Wire(<<"a", "s">>, 0, <<>>, <<str_to_variant("s", <<"s">>)>>),
                          Wire(<<"a", "{", "s", "i", "}">>, 0, <<>>,
                               <<from_dict_entry(str_to_variant("s", <<"s">>),
                                                 num_to_variant("i", 1))>>),
                          tuple_from_iter(<<num_to_variant("i", 1), str_to_variant("s", <<>>)>>)}
    IN  flat \cup {from_variant_box(w) : w \in flat}
             \cup {from_variant_box(from_variant_box(w)) : w \in flat}

\* a Deserialize impl that calls deserialize_any on the wire value
DecodeAny ==
    /\ pc = "start"
    /\ \E w \in AnyWires :
          /\ call' = [op |-> "decode_any", w |-> w]
          /\ dec' = deserialize_any(w)
    /\ pc' = "decoded"
    /\ UNCHANGED enc
    /\ UNCHANGED <<lazy_vars, access_vars>>

\* the u32 2^31, the least with the top bit set, as its 32 bits
U32_TOP_BIT == -2147483647 - 1

\* variant indexes at the ends of the ranges of the tag types; one with the
\* top bit set is handed to the narrow tags of unit-only enums alone
TagIndexes(code, data) ==
    {0, 1, 255, 256, 32767, 32768, 65535, 65536, 2147483647}
        \cup (IF ~data /\ code \in {"y", "q", "n", "i"} THEN {U32_TOP_BIT} ELSE {})

\* serializer.serialize_unit_variant(name, variant_index, variant) by a
\* Serialize impl, under the node of a unit-only enum or of one with data
SerializeTag ==
    /\ pc = "start"
    /\ \E code \in {"y", "q", "n", "i", "u", "t", "x"} : \E data \in BOOLEAN :
       \E variant_index \in TagIndexes(code, data) :
          LET node == IF data THEN VariantTypeNode(<<"(", code, "v", ")">>, <<>>)
                      ELSE VariantTypeNode(<<code>>, <<>>)
          IN  /\ call' = [op |-> "serialize_tag", code |-> code, data |-> data,
                          variant_index |-> variant_index]
              /\ enc' = serialize_unit_variant(node, variant_index, <<"A">>)
    /\ pc' = "done"
    /\ UNCHANGED dec
    /\ UNCHANGED <<lazy_vars, access_vars>>

\* Deserializer::deserialize_char with the visitor of char
deserialize_char(w) ==
    IF ~IsStr(w) THEN Err("StrMismatch")
    ELSE IF w.s = <<>> THEN Err("ExpectedChar")
    ELSE Ok(w.s[1])

\* strings, object paths and signatures of zero, one and two characters, and
\* wire values that are no strings
CharWires ==
    {str_to_variant("s", s) : s \in {<<>>, <<"a">>, <<"a", "b">>}}
        \cup {str_to_variant("o", s) : s \in {<<"/">>, <<"/", "a">>}}
        \cup {str_to_variant("g", s) : s \in {<<>>, <<"s">>, <<"a", "s">>}}
        \cup {num_to_variant("y", 97), num_to_variant("u", 1), unit_to_variant,
              from_variant_box(str_to_variant("s", <<"a">>)),
              from_some(str_to_variant("s", <<"a">>))}

\* from_variant::<char>(&w)
DecodeChar ==
    /\ pc = "start"
    /\ \E w \in CharWires :
          /\ call' = [op |-> "decode_char", w |-> w]
          /\ dec' = deserialize_char(w)
    /\ pc' = "decoded"
    /\ UNCHANGED enc
    /\ UNCHANGED <<lazy_vars, access_vars>>

\* T::variant_type() for a declared type
VariantTypeOf ==
    /\ pc = "start"
    /\ \E t \in Types :
          /\ call' = [op |-> "variant_type", t |-> t]
          /\ enc' = Ok(variant_type(t))
    /\ pc' = "done"
    /\ UNCHANGED dec
    /\ UNCHANGED <<lazy_vars, access_vars>>

(***************************************************************************)
(* 128-bit integers.  A 64-bit word is held as its four 16-bit limbs and a *)
(* 128-bit integer as its eight, the high limb first: an i128 and the u128 *)
(* of the same bits are the same sequence.  The n of a wire value of type  *)
(* x or t is here the word.                                                *)
(***************************************************************************)
RECURSIVE Carry(_, _, _)
\* the carry into the limb i of a + b
Carry(a, b, i) ==
    IF i = Len(a) THEN 0 ELSE (a[i + 1] + b[i + 1] + Carry(a, b, i + 1)) \div Limb

\* a + b of two integers of the same width, wrapping
WrappingAdd(a, b) == [i \in 1..Len(a) |-> (a[i] + b[i] + Carry(a, b, i)) % Limb]

\* the sign bit
IsNegative(a) == a[1] >= Limb \div 2

\* a + b of two signed integers: a panic where the build checks overflow
SignedAdd(a, b, oc) ==
    LET sum == WrappingAdd(a, b)
    IN  IF oc /\ IsNegative(a) = IsNegative(b) /\ IsNegative(sum) # IsNegative(a)
        THEN Panic("attempt to add with overflow")
        ELSE Ok(sum)

ZeroWord == <<0, 0, 0, 0>>
OnesWord == <<Limb - 1, Limb - 1, Limb - 1, Limb - 1>>

\* Serializer::serialize_i128: [(v >> 64) as i64, v as i64] of v as u128
serialize_i128(v) ==
    Ok(array_from_fixed_array("x", <<SubSeq(v, 1, 4), SubSeq(v, 5, 8)>>))

\* Serializer::serialize_u128: [(v >> 64) as u64, v as u64]
serialize_u128(v) ==
    Ok(array_from_fixed_array("t", <<SubSeq(v, 1, 4), SubSeq(v, 5, 8)>>))

\* Variant::fixed_array::<T>() of an array of the element type code
fixed_array(w, code) ==
    IF w.sig = <<"a", code>> THEN Ok([i \in 1..Len(w.kids) |-> w.kids[i].n])
    ELSE Err("Mismatch")

\* deserialize_i128 with the visitor of i128:
\* ((buf[0] as u128) << 64) as i128 + buf[1] as i128
deserialize_i128(w, oc) ==
    LET buf == fixed_array(w, "x")
    IN  IF ~buf.ok THEN buf
        ELSE IF Len(buf.v) # 2 THEN LengthMismatch(Len(buf.v), 2)
        ELSE SignedAdd(buf.v[1] \o ZeroWord,
                       (IF IsNegative(buf.v[2]) THEN OnesWord ELSE ZeroWord) \o buf.v[2],
                       oc)

\* deserialize_u128 with the visitor of u128:
\* ((buf[0] as u128) << 64) + buf[1] as u128
deserialize_u128(w, oc) ==
    LET buf == fixed_array(w, "t")
    IN  IF ~buf.ok THEN buf
        ELSE IF Len(buf.v) # 2 THEN LengthMismatch(Len(buf.v), 2)
        ELSE Ok(WrappingAdd(buf.v[1] \o ZeroWord, ZeroWord \o buf.v[2]))

\* words at the ends of the ranges
Words ==
    {<<top, mid, mid, low>> : top \in {0, Limb \div 2 - 1, Limb \div 2, Limb - 1},
                              mid \in {0, Limb - 1}, low \in {0, 1, Limb - 1}}

\* from_variant::<i128>(&to_variant(&v)) and the same for u128
RoundTrip128 ==
    /\ pc = "start"
    /\ \E signed \in BOOLEAN : \E hi \in Words, lo \in Words : \E oc \in BOOLEAN :
          LET v == hi \o lo
              r == IF signed THEN serialize_i128(v) ELSE serialize_u128(v)
          IN  /\ call' = [op |-> "roundtrip_128", signed |-> signed, v |-> v, oc |-> oc]
              /\ enc' = r
              /\ dec' = IF signed THEN deserialize_i128(r.v, oc) ELSE deserialize_u128(r.v, oc)
    /\ pc' = "decoded"
    /\ UNCHANGED <<lazy_vars, access_vars>>

\* from_variant::<i128>(&w) and from_variant::<u128>(&w) for an array of
\* words of another length
Decode128 ==
    /\ pc = "start"
    /\ \E signed \in BOOLEAN : \E n \in {0, 1, 3} : \E oc \in BOOLEAN :
       \E ws \in [1..n -> {ZeroWord, OnesWord}] :
          LET w == array_from_fixed_array(IF signed THEN "x" ELSE "t", ws)
          IN  /\ call' = [op |-> "decode_128", signed |-> signed, w |-> w, oc |-> oc]
              /\ dec' = IF signed THEN deserialize_i128(w, oc) ELSE deserialize_u128(w, oc)
    /\ pc' = "decoded"
    /\ UNCHANGED enc
    /\ UNCHANGED <<lazy_vars, access_vars>>

Next ==
    \/ ToVariant
    \/ FromVariant
    \/ FromTag
    \/ FromName
    \/ SerializeStr
    \/ SerializeOption
    \/ SerializeSeq
    \/ SerializeUnder
    \/ DecodeTuple
    \/ DecodeInt
    \/ DecodeBox
    \/ EncodeBox
    \/ FlagsToVariant
    \/ FlagsRoundTrip
    \/ FlagsFromVariant
    \/ ChildType
    \/ DecodeEnum
    \/ DecodeAny
    \/ SerializeTag
    \/ DecodeChar
    \/ VariantTypeOf
    \/ RoundTrip128
    \/ Decode128

Spec == Init /\ [][Next]_vars

\* the threads that ask for nodes, with no call of the codec
SpecLazy == Init /\ [][NextLazy]_vars

\* the behaviours of a visitor driving an accessor
SpecAccess == Init /\ [][NextAccess]_vars

(***************************************************************************)
(* Properties.                                                             *)
(***************************************************************************)
\* enc is the result of to_variant for the value call.x of the type call.t
Encoded == call.op = "to_variant"
\* dec is the result of from_variant for call.t on the value to_variant returned
RoundTripped == call.op = "to_variant" /\ pc = "decoded"
\* dec is the result of from_variant for the enum call.t on the tag call.w
TagDecoded == call.op = "from_variant"
\* to_variant was called for the struct or enum declared with the name n
IsNamed(n) == Encoded /\ call.t.k \in {"struct", "enum"} /\ call.t.name = n
\* to_variant was called for an enum
EnumEncoded == Encoded /\ call.t.k = "enum"
\* the tag of the wire value of an enum: the value itself, or its first child
TagOf(w) == IF w.kids = <<>> THEN w ELSE w.kids[1]
\* the signature of an enum that carries data
TaggedSig(t) == <<"(">> \o EnumTag(t) \o <<"v", ")">>
IsNewtype(t) == t.k = "struct" /\ t.shape = "tuple" /\ Len(t.of) = 1

\* C1: from_variant::<T>(to_variant(&v)) returns Ok(v) for every value v of
\* every supported type T, empty containers included.
C1_RoundTrip ==
    Encoded => /\ enc.ok
               /\ pc = "decoded" => dec = Ok(call.x)

\* C1 fails: Msg::T("s") is not encoded at all
C1_TextNotEncoded ==
    /\ IsNamed("Msg")
    /\ call.x = <<1, << <<"s">> >> >>
    /\ enc = Err("StrMismatch")

\* C2: a successful to_variant(&v) returns a wire value whose signature is
\* the static signature of the type of v, whatever v contains.
C2_StaticSignature ==
    (Encoded /\ enc.ok) => enc.v.sig = static_variant_type(call.t)

\* C2 fails: WOption(None) is encoded as a maybe of a maybe
C2_MaybeOfMaybe ==
    /\ IsNamed("WOption")
    /\ call.x = << <<>> >>
    /\ enc.ok
    /\ enc.v.sig = <<"m", "m", "s">>
    /\ static_variant_type(call.t) = <<"m", "s">>

\* C3: to_variant(&W(x)) of a single-field struct W(T) succeeds exactly when
\* to_variant(&x) does and returns the identical wire value.
C3_NewtypeTransparent ==
    (Encoded /\ IsNewtype(call.t)) =>
        LET inner == to_variant(call.t.of[1], call.x[1])
        IN  /\ enc.ok = inner.ok
            /\ enc.ok => enc.v = inner.v

\* C3 fails: Some("s") is encoded on its own and not inside WOption
C3_SomeNotEncoded ==
    /\ IsNamed("WOption")
    /\ call.x = << << <<"s">> >> >>
    /\ ~enc.ok
    /\ to_variant(call.t.of[1], call.x[1]).ok

\* the payload of a non-unit variant as C4 states it: a newtype payload as
\* the value on its own under the node of its own type, the fields of a
\* tuple or struct variant as a tuple against the child node of the variant
C4_Payload(variant, fields, child) ==
    IF variant.shape = "tuple" /\ Len(variant.of) = 1
    THEN Serialize(variant.of[1], fields[1], variant_type(variant.of[1]))
    ELSE TupleSerializer(child, variant.of, fields)

\* C4: a non-unit variant is encoded as (tag, box(p)), p being the payload
\* encoded against the variant's own child node, a newtype payload exactly
\* as the same value is encoded on its own.
C4_NonUnitVariant ==
    (EnumEncoded /\ call.t.variants[call.x[1] + 1].shape # "unit") =>
        LET node == variant_type(call.t)
            variant == call.t.variants[call.x[1] + 1]
            tag == variant_tag(node, call.x[1], variant.name)
            p == C4_Payload(variant, call.x[2], node.child_tys[call.x[1] + 1])
        IN  /\ tag.ok
            /\ p.ok => enc = Ok(tuple_from_iter(<<tag.v.tag, from_variant_box(p.v)>>))
            /\ ~p.ok => ~enc.ok

\* C4 fails: the payload of Msg::O(None) is a maybe of the node of the first
\* variant, not of i32
C4_NoneOfFirstVariant ==
    /\ IsNamed("Msg")
    /\ call.x = <<2, << <<>> >> >>
    /\ enc.ok
    /\ enc.v.kids[2].kids[1].sig = <<"m", "(", ")">>
    /\ to_variant(Option(Prim("i32")), <<>>).v.sig = <<"m", "i">>

\* the original sentence of C5: a unit variant of any enum is encoded as
\* the bare tag, with no payload wrapper
C5_UnitVariantIsTag ==
    (EnumEncoded /\ call.t.variants[call.x[1] + 1].shape = "unit") =>
        /\ enc.ok
        /\ enc.v.kids = <<>>
        /\ enc.v.sig = EnumTag(call.t)

\* C5, amended: a unit variant of an enum whose variants are all unit is
\* encoded as the bare tag; a unit variant of an enum with a non-unit variant
\* is encoded as the 2-tuple (tag, boxed ()).
C5_UnitVariant ==
    (EnumEncoded /\ call.t.variants[call.x[1] + 1].shape = "unit") =>
        /\ enc.ok
        /\ TagOf(enc.v).sig = EnumTag(call.t)
        /\ TagOf(enc.v).kids = <<>>
        /\ call.t.mode = "name" => TagOf(enc.v).s = call.t.variants[call.x[1] + 1].name
        /\ call.t.mode = "index" => TagOf(enc.v).n = call.x[1]
        /\ IF has_data(call.t)
           THEN enc.v = tuple_from_iter(<<TagOf(enc.v), from_variant_box(unit_to_variant)>>)
           ELSE enc.v.kids = <<>>

\* C5 happens: MyEnum::U is encoded as ('U', <()>)
C5_UnitInTuple ==
    /\ IsNamed("MyEnum")
    /\ call.x = <<0, <<>>>>
    /\ enc = Ok(tuple_from_iter(<<str_to_variant("s", <<"U">>),
                                  from_variant_box(unit_to_variant)>>))

\* C6: an enum of unit variants has its tag type as signature and no
\* children; an enum with a non-unit variant has the signature (tag, v) and
\* one child node per variant in declaration order, and each of its
\* variants is encoded to a value of that signature.
C6_EnumShape ==
    EnumEncoded =>
        LET t == call.t
            node == variant_type(t)
        IN  IF has_data(t)
            THEN /\ static_variant_type(t) = TaggedSig(t)
                 /\ node.ty = TaggedSig(t)
                 /\ Len(node.child_tys) = Len(t.variants)
                 /\ \A i \in 1..Len(t.variants) :
                        node.child_tys[i].child_tys
                            = [j \in 1..Len(t.variants[i].of) |->
                                  variant_type(t.variants[i].of[j])]
                 /\ enc.ok
                 /\ enc.v.sig = TaggedSig(t)
            ELSE /\ static_variant_type(t) = EnumTag(t)
                 /\ node = VariantTypeNode(EnumTag(t), <<>>)

\* C6 fails: Names::O(["s"]) has no encoding
C6_VariantNotEncoded ==
    /\ IsNamed("Names")
    /\ call.x = <<1, << << <<"s">> >> >> >>
    /\ ~enc.ok

\* C7: in ordinal mode the tag is the 0-based declaration index as a u32,
\* whatever the discriminants, and decoding the ordinal tag k selects the
\* k-th declared variant.
C7_Ordinal ==
    /\ (EnumEncoded /\ call.t.mode = "index") =>
            /\ enc.ok
            /\ TagOf(enc.v) = num_to_variant("u", call.x[1])
    /\ (RoundTripped /\ call.t.k = "enum" /\ call.t.mode = "index") =>
            /\ dec.ok
            /\ dec.v[1] = TagOf(enc.v).n
    /\ (TagDecoded /\ call.t.mode = "index" /\ TagOf(call.w).sig = <<"u">>
            /\ TagOf(call.w).n < Len(call.t.variants)
            /\ call.t.variants[TagOf(call.w).n + 1].shape = "unit") =>
            dec = Ok(<<TagOf(call.w).n, <<>>>>)

\* C7 happens: Direction::West = 4, the variant of index 3, goes as uint32 3
\* and comes back
C7_West ==
    /\ IsNamed("Direction")
    /\ call.x = <<3, <<>>>>
    /\ call.t.variants[4].disc = 4
    /\ enc = Ok(num_to_variant("u", 3))
    /\ dec = Ok(call.x)

\* C8: in representation mode the tag written for a variant is the
\* discriminant of the variant, and decoding a discriminant gives the
\* variant that declares it.
C8_Discriminant ==
    /\ (EnumEncoded /\ call.t.mode = "repr" /\ enc.ok) =>
            TagOf(enc.v).n = call.t.variants[call.x[1] + 1].disc
    /\ (TagDecoded /\ call.t.mode = "repr" /\ TagOf(call.w).sig = EnumTag(call.t)) =>
            \A i \in 1..Len(call.t.variants) :
                (call.t.variants[i].disc = TagOf(call.w).n
                    /\ call.t.variants[i].shape = "unit") => dec = Ok(<<i - 1, <<>>>>)

\* C8 fails: Level::High = 5 of #[repr(u8)] goes as byte 1
C8_IndexWritten ==
    /\ IsNamed("Level")
    /\ call.t.repr = "u8"
    /\ call.x = <<1, <<>>>>
    /\ call.t.variants[2].disc = 5
    /\ enc = Ok(num_to_variant("y", 1))

\* the wire type code C9 gives for a declared integer type
C9_Code(r) ==
    CASE r = "i8" -> "n" [] r = "i16" -> "n" [] r = "i32" -> "i" [] r = "i64" -> "x"
      [] r = "u8" -> "y" [] r = "u16" -> "q" [] r = "u32" -> "u" [] r = "u64" -> "t"

\* C9: in representation mode the declared integer type fixes the wire type
\* code of the tag (i8 and i16 'n', i32 'i', i64 'x', u8 'y', u16 'q',
\* u32 'u', u64 't'), and the encoded tag of every variant has that type.
C9_TagCode ==
    (EnumEncoded /\ call.t.mode = "repr" /\ call.t.repr # "") =>
        /\ EnumTag(call.t) = <<C9_Code(call.t.repr)>>
        /\ enc.ok
        /\ TagOf(enc.v).sig = <<C9_Code(call.t.repr)>>
        /\ TagOf(enc.v).kids = <<>>

\* C9 happens: the tag of Event::G(54) of #[repr(i8)] is an int16
C9_Int8AsInt16 ==
    /\ IsNamed("Event")
    /\ call.t.repr = "i8"
    /\ call.x = <<1, <<54>>>>
    /\ enc.ok
    /\ enc.v.kids[1].sig = <<"n">>

C11_ElementNode(node) ==
    IF node.child_tys # <<>> /\ node.child_tys[1].ty = element(node.ty)
    THEN node.child_tys[1]
    ELSE VariantTypeNode(element(node.ty), <<>>)

\* C11: under a node of signature m<T>, None is encoded as the empty maybe
\* of signature m<T>, Some(x) as the maybe of signature m<T> that holds x
\* encoded against the element node, and Some(x) fails with a type mismatch
\* when the encoded x is not of the element type.
C11_Option ==
    call.op = "serialize_option" =>
        LET elem == element(call.node.ty)
            p == Serialize(call.t, call.x[1], C11_ElementNode(call.node))
        IN  IF call.x = <<>> THEN enc = Ok(Wire(call.node.ty, 0, <<>>, <<>>))
            ELSE IF ~p.ok THEN ~enc.ok
            ELSE IF is_of_type(p.v, elem) THEN enc = Ok(Wire(call.node.ty, 0, <<>>, <<p.v>>))
            ELSE enc = Err("Mismatch")

\* C11 fails: under the node of WOption, of signature ms, None is encoded
\* with the signature mms
C11_NoneUnderWrapper ==
    /\ call.op = "serialize_option"
    /\ call.node = variant_type(WOption)
    /\ call.node.ty = <<"m", "s">>
    /\ call.x = <<>>
    /\ enc = Ok(Wire(<<"m", "m", "s">>, 0, <<>>, <<>>))

\* the generic path: every element encoded against the element node, the
\* children assembled into an array of the node's type
C12_Generic(code, xs) ==
    LET t == CodeType(code)
        r == SerializeAll([i \in 1..Len(xs) |-> t], xs,
                          [i \in 1..Len(xs) |-> variant_type(t)], 1)
    IN  IF ~r.ok THEN r ELSE array_from_variant_iter(<<"a", code>>, r.v)

\* C12: for each of the nine fixed-size element codes and every sequence of
\* elements of that type, the packed path yields the array the generic path
\* yields: the same signature and the same element values in the same order.
C12_FastPath ==
    call.op = "serialize_seq" =>
        /\ enc.ok
        /\ enc = C12_Generic(call.code, call.xs)
        /\ enc.v.sig = <<"a", call.code>>
        /\ Len(enc.v.kids) = Len(call.xs)
        /\ \A i \in 1..Len(call.xs) :
              enc.v.kids[i] = num_to_variant(call.code,
                                             IF call.code = "b"
                                             THEN (IF call.xs[i] THEN 1 ELSE 0)
                                             ELSE call.xs[i])

\* C12 happens: a packed array of two 16-bit signed elements, one negative
C12_PackedNegative ==
    /\ call.op = "serialize_seq"
    /\ call.code = "n"
    /\ Len(call.xs) = 2
    /\ call.xs[1] < 0
    /\ call.xs[2] > 0
    /\ enc.ok

\* C13: a tuple or a struct of several fields, of arity N, is decoded only
\* from a wire tuple of exactly N children; a wire tuple of another count
\* fails with LengthMismatch{actual, expected}, whatever its children are,
\* and on success the fields are the children decoded in wire order.
C13_TupleArity ==
    call.op = "decode_tuple" =>
        LET N == Len(call.t.of)
            w == call.w
        IN  /\ dec.ok => is_tuple(w.sig) /\ n_children(w) = N
            /\ is_tuple(w.sig) /\ n_children(w) # N => dec = LengthMismatch(n_children(w), N)
            /\ dec.ok =>
                  /\ Len(dec.v) = N
                  /\ \A i \in 1..N : Deserialize(call.t.of[i], w.kids[i], FALSE) = Ok(dec.v[i])

\* C13 happens: a wire tuple of three children, the first two those of
\* MyStruct, is refused for MyStruct
C13_ThirdChild ==
    /\ call.op = "decode_tuple"
    /\ call.t = MyStruct
    /\ call.w.sig = <<"(", "u", "d", "s", ")">>
    /\ dec = LengthMismatch(3, 2)

\* C14: a 64-bit wire integer, signed or unsigned, decoded as an 8-, 16- or
\* 32-bit integer gives the same number when the number is in the range of
\* the target and an integer-overflow error otherwise.
C14_Narrowing ==
    call.op = "decode_int" /\ call.w.sig \in {<<"x">>, <<"t">>} =>
        IF InRange(call.t.k, call.w.n) THEN dec = Ok(call.w.n) ELSE dec = Err("Int")

\* C14 fails: the 64-bit wire integer 100, in the range of every narrow
\* type, is refused as an i32 with a type mismatch
C14_InRangeRefused ==
    /\ call.op = "decode_int"
    /\ call.t = Prim("i32")
    /\ call.w = num_to_variant("x", 100)
    /\ dec = Err("Mismatch")

\* the tag matches no variant of the enum t: as a name, as the ordinal of an
\* enum tagged by ordinal, as the discriminant of an enum tagged by its
\* #[repr] discriminants
C15_NoVariant(t, tag) ==
    IF tag.sig = <<"s">> THEN \A i \in 1..Len(t.variants) : t.variants[i].name # tag.s
    ELSE IF t.mode = "repr" THEN \A i \in 1..Len(t.variants) : t.variants[i].disc # tag.n
    ELSE tag.n >= Len(t.variants)

\* C15: decoding an enum from a tag (a name, an ordinal or a discriminant)
\* that matches no variant of the enum fails with the InvalidTag error and
\* gives no value.
C15_InvalidTag ==
    call.op \in {"from_variant", "from_name"} /\ C15_NoVariant(call.t, TagOf(call.w)) =>
        dec = Err("InvalidTag")

\* C15 fails: the tag 0, the discriminant of no variant of
\* #[repr(u8)] enum Level { Low = 2, High = 5 }, is decoded as Low
C15_UnknownDecoded ==
    /\ call.op = "from_variant"
    /\ call.t = Level("u8")
    /\ call.w = num_to_variant("y", 0)
    /\ dec = Ok(<<0, <<>>>>)

\* an unknown name fails, with the message of serde and not InvalidTag
C15_UnknownName ==
    /\ call.op = "from_name"
    /\ call.t = Color
    /\ call.w = str_to_variant("s", <<"Z">>)
    /\ dec = Err("Custom")

RECURSIVE C17_Join(_, _, _)
\* the nicks of the members from the i-th on that are set in bits, in
\* declaration order, each after a "|" (a member is set when it has a bit and
\* all its bits are in bits)
C17_Join(class, i, bits) ==
    IF i > Len(class) THEN <<>>
    ELSE IF class[i].value # 0 /\ BitAnd(bits, class[i].value) = class[i].value
         THEN <<"|">> \o class[i].nick \o C17_Join(class, i + 1, bits)
    ELSE C17_Join(class, i + 1, bits)

\* the nicks of the set members joined by "|"
C17_Joined(class, bits) ==
    IF C17_Join(class, 1, bits) = <<>> THEN <<>> ELSE Tail(C17_Join(class, 1, bits))

RECURSIVE C17_AllBits(_, _)
C17_AllBits(class, i) ==
    IF i > Len(class) THEN 0 ELSE BitOr(class[i].value, C17_AllBits(class, i + 1))

\* bits is a union of members of the registry
C17_IsUnion(class, bits) == BitAnd(bits, C17_AllBits(class, 1)) = bits

\* C17: a flags value is encoded by name as the nicks of exactly its set
\* flags, in declaration order, joined by "|" with no separator at either
\* end or doubled; the value 0 is encoded as the empty string.
C17_FlagsByName ==
    call.op = "flags_to_variant" /\ C17_IsUnion(call.class, call.value) =>
        enc = Ok(str_to_variant("s", C17_Joined(call.class, call.value)))

\* C17 fails: with a member of the value 0 in the registry, the value 0 is
\* encoded as the nick of that member
C17_ZeroNamed ==
    /\ call.op = "flags_to_variant"
    /\ call.class = NoneFlags
    /\ call.value = 0
    /\ enc = Ok(str_to_variant("s", <<"n">>))

RECURSIVE C18_Split(_, _)
\* the items of s between the separators, cur the item being read
C18_Split(s, cur) ==
    IF s = <<>> THEN <<cur>>
    ELSE IF Head(s) = "|" THEN <<cur>> \o C18_Split(Tail(s), <<>>)
    ELSE C18_Split(Tail(s), cur \o <<Head(s)>>)

RECURSIVE C18_Union(_, _, _)
\* the OR of the values of the members named by items[i..]
C18_Union(class, items, i) ==
    IF i > Len(items) THEN 0
    ELSE BitOr(value_by_nick(class, items[i])[1], C18_Union(class, items, i + 1))

\* C18: a string of names joined by "|" is decoded as the OR of the values of
\* the named members, the empty string as 0, and a string with a name that is
\* no member gives no value; the encoding of a union of members is decoded as
\* that value.
C18_FlagsFromName ==
    /\ call.op = "flags_from_variant" =>
          LET items == C18_Split(call.s, <<>>)
          IN  IF call.s = <<>> THEN dec = Ok(0)
              ELSE IF \A i \in 1..Len(items) : value_by_nick(call.class, items[i]) # <<>>
                   THEN dec = Ok(C18_Union(call.class, items, 1))
              ELSE ~dec.ok
    /\ (call.op = "flags_to_variant" /\ pc = "flags_decoded"
            /\ C17_IsUnion(call.class, call.value)) => dec = Ok(call.value)

\* C18 fails: the member of two bits of MaskFlags, encoded as the nick of the
\* member of one bit, is decoded as that member
C18_MaskLost ==
    /\ call.op = "flags_to_variant"
    /\ call.class = MaskFlags
    /\ call.value = 3
    /\ enc = Ok(str_to_variant("s", <<"a">>))
    /\ dec = Ok(1)

C19_Derived == {MyStruct, Outer, WOption}

C19_OwnedTwice ==
    /\ Cardinality(observed[Option(Prim("string"))]) = 2
    /\ built[Option(Prim("string"))] = 2

\* C20: a call that fails returns an Err: neither the encoder nor the
\* decoder panics, whatever the value, the node or the wire value is
C20_FailsWithErr ==
    /\ enc # None /\ ~enc.ok => IsErr(enc)
    /\ dec # None /\ ~dec.ok => IsErr(dec)
    /\ ~enc.ok => "v" \notin DOMAIN enc
    /\ ~dec.ok => "v" \notin DOMAIN dec

\* a Vec of two i32 was serialized under the node of Vec<String>: the
\* assertion on the type of the elements of the generic array failed
C20_ElementMismatch ==
    /\ call.op = "serialize_under"
    /\ call.t = Vec(Prim("i32"))
    /\ call.u = Vec(Prim("string"))
    /\ Len(call.x) = 2
    /\ enc = Panic("Type mismatch")

RECURSIVE C21_Items(_, _)
\* the components of a tuple type, from index i of its type string on
C21_Items(ty, i) ==
    IF i >= Len(ty) THEN <<>>
    ELSE <<SubSeq(ty, i, TypeEnd(ty, i) - 1)>> \o C21_Items(ty, TypeEnd(ty, i))

\* the type the claim gives the position index of a node without that child
C21_Derived(ty, index) ==
    IF ty[1] = "a" /\ Len(ty) > 1 /\ ty[2] = "{"
    THEN LET kv == C21_Items(element(ty), 2)
         IN  IF index < 2 THEN kv[index + 1] ELSE VARIANT_TY_ANY
    ELSE IF ty[1] \in {"a", "m"}
         THEN IF index = 0 THEN SubSeq(ty, 2, Len(ty)) ELSE VARIANT_TY_ANY
    ELSE IF ty[1] = "("
         THEN LET items == C21_Items(ty, 2)
              IN  IF index < Len(items) THEN items[index + 1] ELSE VARIANT_TY_ANY
    ELSE VARIANT_TY_ANY

\* C21: child_type_or_default returns the declared child when there is one,
\* else the element of an array or maybe, the key and the value of an array
\* of dict entries, the component of a tuple, and the wildcard for a position
\* the signature does not have
C21_ChildType ==
    call.op = "child_type" =>
        LET node == call.node
            index == call.index
        IN  IF index < Len(node.child_tys) THEN enc = Ok(node.child_tys[index + 1])
            ELSE enc = Ok(VariantTypeNode(C21_Derived(node.ty, index), <<>>))

\* position 0 of a maybe of a dict entry was asked for, and the key came back
C21_MaybeOfEntry ==
    /\ call.op = "child_type"
    /\ call.node = VariantTypeNode(<<"m", "{", "s", "v", "}">>, <<>>)
    /\ call.index = 0
    /\ enc = Ok(VariantTypeNode(<<"s">>, <<>>))

\* C22: an enum is decoded tag first.  A wire value that is no container is
\* the tag, and gives a unit variant or UnsupportedType; of a container
\* child 0 is the tag and child 1 the boxed payload, and a child 1 that is
\* missing or no box gives UnsupportedType
C22_TagThenPayload ==
    call.op = "decode_enum" =>
        LET w == call.w
            variants == call.t.variants
            known(tag) == tag.n < Len(variants)
        IN  IF ~is_container(w.sig)
            THEN IF ~known(w) THEN ~dec.ok /\ dec.err # "UnsupportedType"
                 ELSE IF variants[w.n + 1].shape = "unit" THEN dec = Ok(<<w.n, <<>>>>)
                 ELSE dec = Err("UnsupportedType")
            ELSE IF w.kids = <<>> THEN dec = Err("UnsupportedType")
            ELSE IF ~known(w.kids[1]) THEN ~dec.ok /\ dec.err # "UnsupportedType"
            ELSE IF Len(w.kids) < 2 \/ w.kids[2].sig # <<"v">>
                 THEN dec = Err("UnsupportedType")
            ELSE dec.ok => dec.v[1] = w.kids[1].n

\* the tag of Item::B stood in a tuple with an i32 that is in no box
C22_PayloadNotBoxed ==
    /\ call.op = "decode_enum"
    /\ call.w = tuple_from_iter(<<num_to_variant("u", 1), num_to_variant("i", 52)>>)
    /\ dec = Err("UnsupportedType")

\* C23: the boxed payload of a unit variant is "()", and that of a tuple or
\* struct variant of N fields is a tuple of N children; no other payload is
\* decoded into the variant
C23_PayloadShape ==
    call.op = "decode_enum" /\ dec.ok /\ is_container(call.w.sig) =>
        LET variant == call.t.variants[dec.v[1] + 1]
            payload == call.w.kids[2].kids[1]
        IN  /\ variant.shape = "unit" => payload = unit_to_variant
            /\ variant.shape = "named" \/ Len(variant.of) > 1 =>
                  /\ is_tuple(payload.sig)
                  /\ n_children(payload) = Len(variant.of)

\* an array of two i32 in the box was decoded as Item::C(52, 8)
C23_ArrayAccepted ==
    /\ call.op = "decode_enum"
    /\ call.w = tuple_from_iter(<<num_to_variant("u", 2),
                                  from_variant_box(array_from_fixed_array("i", <<52, 8>>))>>)
    /\ dec = Ok(<<2, <<52, 8>>>>)

RECURSIVE C24_Content(_)
\* the wire value in the boxes of a wire value
C24_Content(w) == IF w.sig = <<"v">> THEN C24_Content(w.kids[1]) ELSE w

\* the kind of the data model a wire value of the type ty is presented as
C24_Kind(ty, empty) ==
    CASE ty = <<"b">> -> "visit_bool"
      [] ty = <<"y">> -> "visit_u8"
      [] ty = <<"q">> -> "visit_u16"
      [] ty = <<"u">> -> "visit_u32"
      [] ty = <<"t">> -> "visit_u64"
      [] ty = <<"n">> -> "visit_i16"
      [] ty = <<"i">> -> "visit_i32"
      [] ty = <<"x">> -> "visit_i64"
      [] ty = <<"d">> -> "visit_f64"
      [] ty \in {<<"s">>, <<"o">>, <<"g">>} -> "visit_str"
      [] ty[1] = "m" -> IF empty THEN "visit_none" ELSE "visit_some"
      [] ty = <<"a", "y">> -> "visit_bytes"
      [] ty[1] = "a" /\ ty # <<"a", "y">> ->
            IF ty[2] = "{" THEN "visit_map" ELSE "visit_seq"
      [] ty[1] \in {"(", "{"} -> IF empty THEN "visit_unit" ELSE "visit_seq"

\* C24: deserialize_any shows the visitor the kind of the data model that
\* matches the class of the wire value, of the content of a box for a box,
\* and fails for a handle alone, with UnsupportedType
C24_SelfDescribing ==
    call.op = "decode_any" =>
        LET w == C24_Content(call.w)
        IN  IF w.sig = <<"h">> THEN dec = Err("UnsupportedType")
            ELSE /\ dec.ok
                 /\ dec.v.visit = C24_Kind(w.sig, w.kids = <<>>)
                 /\ dec.v.of = IF w.sig[1] = "m" /\ w.kids # <<>> THEN w.kids[1] ELSE w

\* a double in a box was decoded: the visitor was not called
C24_DoubleRefused ==
    /\ call.op = "decode_any"
    /\ call.w = from_variant_box(num_to_variant("d", 1))
    /\ dec = Err("Mismatch")

RECURSIVE C25_Entries(_, _)
\* the entries a visitor received in the first i calls: one for a key and
\* its value, one for a whole entry
C25_Entries(out, i) ==
    IF i = 0 THEN <<>>
    ELSE CASE out[i][1] = "entry" ->
                Append(C25_Entries(out, i - 1), from_dict_entry(out[i][2], out[i][3]))
           [] out[i][1] = "value" ->
                Append(C25_Entries(out, i - 2), from_dict_entry(out[i - 1][2], out[i][2]))
           [] OTHER -> C25_Entries(out, i - 1)

\* C25: a dictionary consumed by next_key_seed then next_value_seed and by
\* next_entry_seed, in any interleaving, yields every entry once, in wire
\* order, the value of the entry of the key, and the end is reported exactly
\* when all the entries were consumed
C25_EachEntryOnce ==
    access.kind = "map" =>
        LET out == access.out
            kids == access.input.kids
            got == C25_Entries(out, Len(out))
        IN  /\ Len(got) <= Len(kids)
            /\ got = SubSeq(kids, 1, Len(got))
            /\ access.pending =>
                   /\ Len(got) < Len(kids)
                   /\ out[Len(out)] = <<"key", kids[Len(got) + 1].kids[1]>>
            /\ \A i \in 1..Len(out) :
                   LET before == Len(C25_Entries(out, i - 1))
                   IN  IF out[i][1] = "value" THEN out[i - 1][1] = "key"
                       ELSE (out[i] = <<"end">>) <=> (before = Len(kids))

\* a dictionary of several entries was consumed to its end both ways
C25_Interleaved ==
    /\ access.kind = "map"
    /\ Len(access.input.kids) >= 3
    /\ access.input.kids[1] # access.input.kids[2]
    /\ \E i, j, k \in 1..Len(access.out) :
           /\ access.out[i][1] = "entry"
           /\ access.out[j][1] = "value"
           /\ i < j
           /\ access.out[k] = <<"end">>

\* the elements an accessor has to yield: the type string and the content
\* for VariantDeserializer, the children of the input for the two others
C29_Elements(a) ==
    IF a.kind = "variant" THEN <<str_to_variant("s", a.input.sig), a.input>>
    ELSE a.input.kids

\* next_element yields each child once, in order, and then reports the end
C29_ElementsInOrder ==
    access.kind \in SeqKinds =>
        LET all == C29_Elements(access)
            out == access.out
        IN  \A i \in 1..Len(out) :
                IF i <= Len(all) THEN out[i] = <<"element", all[i]>>
                ELSE out[i] = <<"end">>

\* C29: at every point of an iteration over an array, a tuple or the content
\* of a box, size_hint is the number of the elements not yet yielded and its
\* computation does not underflow; next_element yields each child once, in
\* order, and then reports the end on every further call
C29_SizeHint ==
    /\ C29_ElementsInOrder
    /\ access.kind \in SeqKinds /\ access.hint # None =>
           LET done == Cardinality({i \in 1..Len(access.out) : access.out[i][1] = "element"})
           IN  access.hint = Ok(Len(C29_Elements(access)) - done)

\* size_hint was taken of an empty array in a build that checks overflow
C29_Underflow ==
    /\ access.kind = "container"
    /\ access.input.kids = <<>>
    /\ access.out = <<>>
    /\ access.hint = Panic("attempt to subtract with overflow")

\* the largest number of a narrow tag type
C26_Max(code) ==
    CASE code = "y" -> 255
      [] code = "q" -> 65535
      [] code = "n" -> 32767
      [] code = "i" -> 2147483647

\* C26: with a tag type narrower than the u32 variant index (y, q, n, i), an
\* index that does not fit makes the encoding fail with the integer-overflow
\* error, and an index that fits is the number of the tag, unchanged
C26_NarrowTag ==
    call.op = "serialize_tag" /\ call.code \in {"y", "q", "n", "i"} =>
        LET fits == 0 <= call.variant_index /\ call.variant_index <= C26_Max(call.code)
            tag == num_to_variant(call.code, call.variant_index)
        IN  IF ~fits THEN enc = Err("Int")
            ELSE IF call.data
                 THEN enc = Ok(tuple_from_iter(<<tag, from_variant_box(unit_to_variant)>>))
            ELSE enc = Ok(tag)

\* index 256 under a byte tag was refused
C26_ByteOverflow ==
    /\ call.op = "serialize_tag"
    /\ call.code = "y"
    /\ call.variant_index = 256
    /\ enc = Err("Int")

\* C27: a character is decoded from a string wire value of exactly one
\* character; the empty string and a string of more than one character fail
\* with ExpectedChar, a wire value that is no string with the string
\* type-mismatch error
C27_OneChar ==
    call.op = "decode_char" =>
        LET w == call.w
        IN  IF w.sig \notin {<<"s">>, <<"o">>, <<"g">>} THEN dec = Err("StrMismatch")
            ELSE IF Len(w.s) = 1 THEN dec = Ok(w.s[1])
            ELSE dec = Err("ExpectedChar")

\* the string "ab" was decoded as the character a
C27_FirstOfTwo ==
    /\ call.op = "decode_char"
    /\ call.w = str_to_variant("s", <<"a", "b">>)
    /\ dec = Ok("a")

\* the claim on the wire values other than strings of several characters
C27_ButLonger ==
    call.op = "decode_char" /\ Len(call.w.s) <= 1 => C27_OneChar

\* the arity of the top constructor of a signature
C28_Arity(ty) ==
    CASE ty[1] \in {"m", "a"} -> 1
      [] ty[1] = "{" -> 2
      [] ty[1] = "(" -> n_items(ty)
      [] OTHER -> 0

\* C28: a node of variant_type() has as many children as the arity of the
\* top constructor of its signature, one per variant for an enum with data,
\* and the node of a single-field struct is the node of its field
C28_NodeArity ==
    call.op = "variant_type" =>
        LET t == call.t
            node == enc.v
        IN  /\ Len(node.child_tys) =
                   IF t.k = "enum" /\ has_data(t) THEN Len(t.variants)
                   ELSE C28_Arity(node.ty)
            /\ t.k = "struct" /\ Len(t.of) = 1 => node = variant_type(t.of[1])

\* the node of a HashMap has the key and the value as its children
C28_MapOfTwo ==
    /\ call.op = "variant_type"
    /\ call.t = Map(Prim("i32"), Prim("i32"))
    /\ enc.v.ty = <<"a", "{", "i", "i", "}">>
    /\ Len(enc.v.child_tys) = 2

\* the claim on the types other than maps and single-field structs
C28_ButMapAndNewtype ==
    /\ call.op = "variant_type"
    /\ call.t.k # "map"
    /\ ~(call.t.k = "struct" /\ Len(call.t.of) = 1)
    => C28_NodeArity

\* C30: a 128-bit integer goes through its encoding as an array of two
\* 64-bit words, the high word first, and comes back unchanged, signed or
\* not, also when the low word has its top bit set; an array of another
\* length fails with LengthMismatch
C30_RoundTrip ==
    /\ call.op = "roundtrip_128" =>
           /\ enc.ok
           /\ enc.v.sig = <<"a", IF call.signed THEN "x" ELSE "t">>
           /\ Len(enc.v.kids) = 2
           /\ enc.v.kids[1].n = SubSeq(call.v, 1, 4)
           /\ enc.v.kids[2].n = SubSeq(call.v, 5, 8)
           /\ dec = Ok(call.v)
    /\ call.op = "decode_128" => dec = LengthMismatch(Len(call.w.kids), 2)

\* -1i128 came back as -2^64 - 1
C30_MinusOne ==
    /\ call.op = "roundtrip_128"
    /\ call.signed
    /\ call.v = OnesWord \o OnesWord
    /\ dec = Ok(<<Limb - 1, Limb - 1, Limb - 1, Limb - 2>> \o OnesWord)

\* the claim on u128, on the i128 of a low word without its top bit, and on
\* the arrays of another length
C30_ButLowTopBit ==
    ~(call.op = "roundtrip_128" /\ call.signed /\ call.v[5] >= Limb \div 2) => C30_RoundTrip

\* i128::MIN + 2^63 made the addition overflow in a checking build
C30_AddPanics ==
    /\ call.op = "roundtrip_128"
    /\ call.signed
    /\ dec = Panic("attempt to add with overflow")
====
